---------------------------- MODULE Spec2Model ----------------------------
(***************************************************************************)
(* Permission resolution core of the NEOnet authorization system:          *)
(* claim codec, role resolver, decision engine and decision cache          *)
(* (lib/authorization-utils, lib/with-authorization, config).              *)
(*                                                                         *)
(* Strings.  A JavaScript string is modelled as a sequence of tokens: the  *)
(* token ":" is the colon character, every other token is a colon-free    *)
(* run of characters.  The empty string is << >>.  All string   *)
(* operations of the core (template concatenation with ":", split(":"),    *)
(* startsWith(id + ":"), includes / === on whole strings) are exact on     *)
(* this representation.                                                    *)
(***************************************************************************)
EXTENDS Integers, Sequences, FiniteSets, TLC

VARIABLES
    permissionCache,        \* Map<string, {result, timestamp}> (module state)
    now,                    \* Date.now(), milliseconds
    ticks,                  \* number of clock advances so far
    enableRoleInheritance,  \* APP_CONFIG.features.enableRoleInheritance
    roles,                  \* the role list (allRoles) handed to the operations
    last,                   \* the last operation performed and what it returned
    stack,                  \* call stack of a role traversal in progress
    calls                   \* hasPermission calls in flight side by side

vars == <<permissionCache, now, ticks, enableRoleInheritance, roles, last, stack,
          calls>>

-----------------------------------------------------------------------------
(* Strings *)

Colon == ":"

Str(tok) == <<tok>>

\* `${a}:${b}`
ColonJoin(a, b) == a \o <<Colon>> \o b

\* s.startsWith(p)
StartsWith(s, p) == Len(p) <= Len(s) /\ SubSeq(s, 1, Len(p)) = p

\* array.includes(x)
Includes(arr, x) == \E i \in 1..Len(arr) : arr[i] = x

\* s.split(":") : the segments between colons, empty segments kept
RECURSIVE SplitFrom(_, _, _)
SplitFrom(s, i, cur) ==
    IF i > Len(s) THEN <<cur>>
    ELSE IF s[i] = Colon THEN <<cur>> \o SplitFrom(s, i + 1, << >>)
    ELSE SplitFrom(s, i + 1, Append(cur, s[i]))

Split(s) == SplitFrom(s, 1, << >>)

-----------------------------------------------------------------------------
(* Enumerations and configuration tables *)

ResourceType ==
    {"employee", "member", "service", "application", "user", "contact", "file",
     "website", "announcement", "feedback", "billing", "report", "training",
     "equipment"}

PermissionAction == {"view", "create", "update", "delete"}

AdvancedPermissionAction ==
    {"approve", "reject", "assign", "publish", "unpublish", "download", "upload",
     "impersonate", "configure", "provision", "suspend", "restore", "audit"}

AllPermissionActions == PermissionAction \cup AdvancedPermissionAction

PermissionScope ==
    {"all", "owned", "assigned", "district", "department", "region", "none"}

\* Keys every object literal inherits from Object.prototype: a lookup
\* TABLE[key] with one of these is truthy although the key is no entry.
ObjectPrototypeKeys == {"constructor", "toString", "valueOf", "hasOwnProperty"}

\* Truthiness of TABLE[key] for an object-literal table with own keys `own`
Truthy(own, key) ==
    /\ Len(key) = 1
    /\ key[1] \in own \cup ObjectPrototypeKeys

\* RESOURCE_DEFINITIONS[r].defaultScopes
DefaultScopes(r) ==
    CASE r \in {"employee", "file"}                     -> {"all", "department", "assigned", "owned"}
      [] r = "member"                                   -> {"all", "region", "assigned"}
      [] r \in {"service", "application", "feedback", "equipment"} -> {"all", "assigned"}
      [] r = "user"                                     -> {"all", "district", "assigned"}
      [] r \in {"contact", "announcement", "billing"}   -> {"all", "district"}
      [] r = "report"                                   -> {"all", "department", "assigned"}
      [] r \in {"website", "training"}                  -> {"all"}

CACHE_TTL == 5 * 60 * 1000

-----------------------------------------------------------------------------
(* Claim codec *)

Ok(v)    == [ok |-> TRUE, value |-> v]
Err(e)   == [ok |-> FALSE, error |-> e]

\* createPermissionClaim: the claim string, or the Error thrown.  A resource
\* that only Object.prototype knows passes the table test and then fails on
\* resourceDef.defaultScopes.includes (TypeError).
createPermissionClaim(resource, action, scope) ==
    IF resource = << >> \/ ~Truthy(ResourceType, resource)
      THEN Err("Invalid resource type")
    ELSE IF action = << >> \/ ~Truthy(AllPermissionActions, action)
      THEN Err("Invalid action")
    ELSE IF scope = << >> \/ ~Truthy(PermissionScope, scope)
      THEN Err("Invalid scope")
    ELSE IF resource[1] \notin ResourceType
      THEN Err("TypeError")
    ELSE Ok(ColonJoin(resource, ColonJoin(action, scope)))

\* parsePermissionClaim: {resource, action, scope}, or the Error thrown
parsePermissionClaim(claim) ==
    IF claim = << >>
      THEN Err("This field is required.")
    ELSE LET parts == Split(claim)
         IN IF Len(parts) # 3
              THEN Err("Invalid format. Please check your input.")
            ELSE IF ~Truthy(ResourceType, parts[1])
              THEN Err("Unknown resource type")
            ELSE IF ~Truthy(AllPermissionActions, parts[2])
              THEN Err("Unknown action")
            ELSE IF ~Truthy(PermissionScope, parts[3])
              THEN Err("Unknown scope")
            ELSE Ok([resource |-> parts[1], action |-> parts[2], scope |-> parts[3]])

\* ACTION_DEFINITIONS[action]?.riskLevel || "low"
ActionRiskLevel(action) ==
    CASE action \in {"view", "download"}                       -> "low"
      [] action \in {"create", "update", "reject", "assign", "publish",
                     "unpublish", "upload", "audit"}           -> "medium"
      [] action \in {"approve", "configure", "provision", "suspend",
                     "restore"}                                -> "high"
      [] action \in {"delete", "impersonate"}                  -> "critical"
      [] OTHER                                                 -> "low"

\* const riskOrder = { critical: 4, high: 3, medium: 2, low: 1 }
riskOrder(risk) ==
    CASE risk = "critical" -> 4 [] risk = "high" -> 3
      [] risk = "medium" -> 2 [] risk = "low" -> 1

\* ScopeLevel with the levels of district and department exchanged
ScopeLevel_Swapped(scope) ==
    CASE scope = "none" -> 0 [] scope = "owned" -> 1 [] scope = "assigned" -> 2
      [] scope = "district" -> 4 [] scope = "department" -> 3
      [] scope = "region" -> 5 [] scope = "all" -> 6 [] OTHER -> 0

\* SCOPE_DEFINITIONS[scope]?.level || 0
ScopeLevel(scope) ==
    CASE scope = "none" -> 0 [] scope = "owned" -> 1 [] scope = "assigned" -> 2
      [] scope = "district" -> 3 [] scope = "department" -> 4
      [] scope = "region" -> 5 [] scope = "all" -> 6 [] OTHER -> 0

\* isPermissionStronger: an Error of parsePermissionClaim is caught, false
isPermissionStronger(permA, permB) ==
    LET A == parsePermissionClaim(permA)
        B == parsePermissionClaim(permB)
    IN IF ~A.ok \/ ~B.ok THEN FALSE
       ELSE IF A.value.resource # B.value.resource THEN FALSE
       ELSE IF A.value.action # B.value.action
         THEN riskOrder(ActionRiskLevel(A.value.action[1]))
                > riskOrder(ActionRiskLevel(B.value.action[1]))
       ELSE ScopeLevel(A.value.scope[1]) > ScopeLevel(B.value.scope[1])

\* RESOURCE_DEFINITIONS[resource]?.riskLevel || "low"
ResourceRiskLevel(resource) ==
    CASE resource \in {"employee", "service"}                          -> "high"
      [] resource \in {"member", "application", "user", "file", "website",
                       "report", "equipment"}                          -> "medium"
      [] resource \in {"contact", "announcement", "feedback", "training"} -> "low"
      [] resource = "billing"                                          -> "critical"
      [] OTHER                                                         -> "low"

\* scopeRisk with > for >= in both thresholds
scopeRisk_Above(scopeLevel) ==
    IF scopeLevel > 5 THEN "high"
    ELSE IF scopeLevel > 3 THEN "medium"
    ELSE "low"

\* Higher scope = higher risk
scopeRisk(scopeLevel) ==
    IF scopeLevel >= 5 THEN "high"
    ELSE IF scopeLevel >= 3 THEN "medium"
    ELSE "low"

\* Math.max of three numbers
Max3(a, b, c) ==
    IF a >= b /\ a >= c THEN a ELSE IF b >= c THEN b ELSE c

\* determineAccessRiskLevel: Object.keys(riskOrder)[maxRisk - 1], the keys
\* being in the order low, medium, high, critical
determineAccessRiskLevel(resource, action, scope) ==
    LET resourceRisk == ResourceRiskLevel(resource)
        actionRisk == ActionRiskLevel(action)
        maxRisk == Max3(riskOrder(resourceRisk), riskOrder(actionRisk),
                        riskOrder(scopeRisk(ScopeLevel(scope))))
    IN <<"low", "medium", "high", "critical">>[maxRisk]

\* The advisory console.warn of createPermissionClaim
ScopeWarning(resource, action, scope) ==
    /\ createPermissionClaim(resource, action, scope).ok
    /\ scope[1] \notin DefaultScopes(resource[1])
    /\ scope[1] # "none"

-----------------------------------------------------------------------------
(* Role resolver *)

\* allRoles.find(pred): index of the first role satisfying it, 0 when none
FindById(allRoles, id) ==
    LET hits == {i \in 1..Len(allRoles) : allRoles[i].id = id}
    IN IF hits = {} THEN 0 ELSE CHOOSE i \in hits : \A j \in hits : i <= j

FindActiveById(allRoles, id) ==
    LET hits == {i \in 1..Len(allRoles) : allRoles[i].id = id /\ allRoles[i].isActive}
    IN IF hits = {} THEN 0 ELSE CHOOSE i \in hits : \A j \in hits : i <= j

\* ParentOfCheck that takes the first role of the list for an id that
\* names no role
ParentOfCheck_OrFirst(allRoles, id) ==
    IF FindById(allRoles, id) = 0 /\ Len(allRoles) > 0 THEN 1
    ELSE FindById(allRoles, id)

\* The parent roleHasPermission descends into for a parent id
ParentOfCheck(allRoles, id) == FindById(allRoles, id)

\* ParentOfCollect without the r.isActive test of the find
ParentOfCollect_AnyState(allRoles, id) == FindById(allRoles, id)

\* The parent getRoleEffectivePermissions descends into for a parent id
ParentOfCollect(allRoles, id) == FindActiveById(allRoles, id)

\* SetAdd as an array push: no duplicate test
SetAdd_Push(s, x) == Append(s, x)

\* Set.add on an insertion-ordered Set kept as a duplicate-free sequence
SetAdd(s, x) == IF Includes(s, x) THEN s ELSE Append(s, x)

RECURSIVE SetAddAll(_, _)
SetAddAll(s, arr) ==
    IF arr = << >> THEN s ELSE SetAddAll(SetAdd(s, Head(arr)), Tail(arr))

\* visited.has(role.id) / visited.add(role.id); each recursive call receives
\* new Set(visited), a copy private to the path
RECURSIVE roleHasPermission(_, _, _, _, _)
roleHasPermission(role, permissionToCheck, allRoles, visited, inherit) ==
    IF role.id \in visited THEN FALSE
    ELSE IF ~role.isActive THEN FALSE
    ELSE IF Includes(role.permissions, permissionToCheck) THEN TRUE
    ELSE IF inherit /\ Len(role.inheritsFrom) > 0
      THEN \E k \in 1..Len(role.inheritsFrom) :
             LET p == ParentOfCheck(allRoles, role.inheritsFrom[k])
             IN /\ p # 0
                /\ roleHasPermission(allRoles[p], permissionToCheck, allRoles,
                                     visited \cup {role.id}, inherit)
    ELSE FALSE

RECURSIVE getRoleEffectivePermissions(_, _, _, _), CollectParents(_, _, _, _, _, _)
getRoleEffectivePermissions(role, allRoles, visited, inherit) ==
    IF role.id \in visited THEN << >>
    ELSE LET own == SetAddAll(<< >>, role.permissions)
         IN IF inherit /\ Len(role.inheritsFrom) > 0
              THEN CollectParents(role, 1, own, allRoles, visited \cup {role.id}, inherit)
              ELSE own

\* The for loop over role.inheritsFrom, from index k, accumulating into acc
CollectParents(role, k, acc, allRoles, visited, inherit) ==
    IF k > Len(role.inheritsFrom) THEN acc
    ELSE LET p == ParentOfCollect(allRoles, role.inheritsFrom[k])
             got == IF p = 0 THEN << >>
                    ELSE getRoleEffectivePermissions(allRoles[p], allRoles, visited, inherit)
         IN CollectParents(role, k + 1, SetAddAll(acc, got), allRoles, visited, inherit)

\* roles.filter((role) => user.roles.includes(role.id) && role.isActive)
UserRoles(user, allRoles) ==
    SelectSeq(allRoles, LAMBDA r : Includes(user.roles, r.id) /\ r.isActive)

RECURSIVE CollectRoles(_, _, _, _)
CollectRoles(rs, acc, allRoles, inherit) ==
    IF rs = << >> THEN acc
    ELSE CollectRoles(Tail(rs),
                      SetAddAll(acc, getRoleEffectivePermissions(Head(rs), allRoles, {}, inherit)),
                      allRoles, inherit)

\* getUserEffectivePermissions without sortByRisk
getUserEffectivePermissions(user, allRoles, inherit) ==
    CollectRoles(UserRoles(user, allRoles),
                 SetAddAll(<< >>, user.directPermissions), allRoles, inherit)

\* riskOrder[ACTION_DEFINITIONS[action]?.riskLevel || "low"] of a claim
ClaimRisk(claim) ==
    riskOrder(ActionRiskLevel(parsePermissionClaim(claim).value.action[1]))

\* Array.prototype.sort is stable: x goes behind every element that the
\* comparator riskOrder[riskB] - riskOrder[riskA] does not put after it
RECURSIVE InsertByRisk(_, _)
InsertByRisk(sorted, x) ==
    IF sorted = << >> THEN <<x>>
    ELSE IF ClaimRisk(Head(sorted)) >= ClaimRisk(x)
      THEN <<Head(sorted)>> \o InsertByRisk(Tail(sorted), x)
    ELSE <<x>> \o sorted

RECURSIVE SortedFrom(_, _)
SortedFrom(arr, acc) ==
    IF arr = << >> THEN acc ELSE SortedFrom(Tail(arr), InsertByRisk(acc, Head(arr)))

\* options.sortByRisk: highest risk first; a claim that does not parse makes
\* the comparator throw, and getUserEffectivePermissions then returns []
sortByRisk(permissionsArray) ==
    IF /\ Len(permissionsArray) >= 2
       /\ \E i \in 1..Len(permissionsArray) : ~parsePermissionClaim(permissionsArray[i]).ok
      THEN << >>
      ELSE SortedFrom(permissionsArray, << >>)

\* Fresh as an alias: the object handed in, not a copy of it
Fresh_Shared(items) == [shared |-> TRUE, items |-> items]

\* new Set(array), Array.from(set): a new object holding the items; writes
\* to it (add, sort) do not reach the array it was built from
Fresh(items) == [shared |-> FALSE, items |-> items]

\* An array of a role or principal after a call that built `obj` from it and
\* left `final` in obj
Written(original, obj, final) == IF obj.shared THEN final ELSE original

-----------------------------------------------------------------------------
(* Decision engine and decision cache *)

\* user === null
null == [isNull |-> TRUE]

\* An empty Map; a Map is a function from its keys
EmptyMap == << >>

MapHas(m, k) == k \in DOMAIN m

\* MapSet that keeps an entry already present (no overwrite)
MapSet_IfAbsent(m, k, v) ==
    [x \in (DOMAIN m) \cup {k} |-> IF x \in DOMAIN m THEN m[x] ELSE v]

MapSet(m, k, v) == [x \in (DOMAIN m) \cup {k} |-> IF x = k THEN v ELSE m[x]]

MapDeleteAll(m, dead) == [x \in (DOMAIN m) \ dead |-> m[x]]

\* CacheKey that leaves the principal out: the claim alone
CacheKey_ClaimOnly(userId, permissionToCheck) == permissionToCheck

\* const cacheKey = `${user.id}:${permissionToCheck}`
CacheKey(userId, permissionToCheck) == ColonJoin(userId, permissionToCheck)

\* CacheEntry that records a denial whatever was computed
CacheEntry_Denied(hasAccess, t) == [result |-> FALSE, timestamp |-> t]

\* { result: hasAccess, timestamp: Date.now() }
CacheEntry(hasAccess, t) == [result |-> hasAccess, timestamp |-> t]

\* CacheLive that never finds an entry (lookup under a key never stored)
CacheLive_Never(cache, key, t) == FALSE

\* CacheLive with <= for <: an entry aged exactly the TTL still counts
CacheLive_Inclusive(cache, key, t) ==
    /\ MapHas(cache, key)
    /\ t - cache[key].timestamp <= CACHE_TTL

\* cached && Date.now() - cached.timestamp < CACHE_TTL
CacheLive(cache, key, t) ==
    /\ MapHas(cache, key)
    /\ t - cache[key].timestamp < CACHE_TTL

\* EarlyDenial without the user.isActive test
EarlyDenial_NullOnly(user) ==
    IF user = null THEN "User not authenticated" ELSE ""

\* The early returns of hasPermission: the reason logged, "" when none applies
EarlyDenial(user) ==
    IF user = null THEN "User not authenticated"
    ELSE IF ~user.isActive THEN "User account is inactive"
    ELSE ""

\* The first role of userRoles that has the permission, 0 when none
FirstGrantingRole(userRoles, permissionToCheck, allRoles, inherit) ==
    LET hits == {i \in 1..Len(userRoles) :
                   roleHasPermission(userRoles[i], permissionToCheck, allRoles, {}, inherit)}
    IN IF hits = {} THEN 0 ELSE CHOOSE i \in hits : \A j \in hits : i <= j

\* source = `Role: ${role.name}` (the blank after the colon belongs to the
\* token of the name)
RoleSource(role) == <<"Role", Colon>> \o role.name

\* ComputeAccess with the roles consulted before the direct permissions
ComputeAccess_RolesFirst(user, permissionToCheck, allRoles, inherit) ==
    LET userRoles == UserRoles(user, allRoles)
        g == FirstGrantingRole(userRoles, permissionToCheck, allRoles, inherit)
    IN IF g # 0
         THEN [hasAccess |-> TRUE, source |-> RoleSource(userRoles[g])]
       ELSE IF Includes(user.directPermissions, permissionToCheck)
         THEN [hasAccess |-> TRUE, source |-> Str("Direct Permission")]
       ELSE [hasAccess |-> FALSE, source |-> Str("No Access")]

\* ComputeAccess with a direct permission also covering every claim it is
\* stronger than (broader scope, riskier action)
ComputeAccess_Covering(user, permissionToCheck, allRoles, inherit) ==
    IF \E i \in 1..Len(user.directPermissions) :
           \/ user.directPermissions[i] = permissionToCheck
           \/ isPermissionStronger(user.directPermissions[i], permissionToCheck)
      THEN [hasAccess |-> TRUE, source |-> Str("Direct Permission")]
    ELSE LET userRoles == UserRoles(user, allRoles)
             g == FirstGrantingRole(userRoles, permissionToCheck, allRoles, inherit)
         IN IF g # 0
              THEN [hasAccess |-> TRUE, source |-> RoleSource(userRoles[g])]
              ELSE [hasAccess |-> FALSE, source |-> Str("No Access")]

\* The computation of hasPermission on a cache miss: direct permissions
\* first, then the user's active roles in the order of allRoles
ComputeAccess(user, permissionToCheck, allRoles, inherit) ==
    IF Includes(user.directPermissions, permissionToCheck)
      THEN [hasAccess |-> TRUE, source |-> Str("Direct Permission")]
    ELSE LET userRoles == UserRoles(user, allRoles)
             g == FirstGrantingRole(userRoles, permissionToCheck, allRoles, inherit)
         IN IF g # 0
              THEN [hasAccess |-> TRUE, source |-> RoleSource(userRoles[g])]
              ELSE [hasAccess |-> FALSE, source |-> Str("No Access")]

\* permissionCache.get(cacheKey): << >> for undefined, else <<entry>>
MapGet(m, k) == IF MapHas(m, k) THEN <<m[k]>> ELSE << >>

\* What one call of hasPermission returns and leaves behind:
\*   ret    the boolean returned          cache  permissionCache afterwards
\*   threw  whether an Error left the call
\*   step   which return statement was taken
\*   reason the reason handed to logAccessAttempt by an early return or the
\*          catch block ("" otherwise)
\*   source the local `source` after the computation (<< >> otherwise)
\*   logged whether logAccessAttempt was called
\*   cached the local `cached`: what permissionCache.get returned, if read
Returned(ret, cache, step, reason, logged, cached) ==
    [ret |-> ret, cache |-> cache, threw |-> FALSE, step |-> step,
     reason |-> reason, source |-> << >>, logged |-> logged, cached |-> cached,
     emitted |-> "none"]

\* logAccessAttempt that lets the failure of the emission escape (no catch)
logAccessAttempt_Rethrow(granted, audit) ==
    IF ~audit.enableAuditLogging THEN "skipped"
    ELSE IF audit.fails THEN "threw"
    ELSE IF ~granted THEN "warned"
    ELSE "built"

\* logAccessAttempt: what becomes of the record.  audit.enableAuditLogging is
\* the feature flag, audit.fails whether building or emitting the record
\* throws; the throw is caught inside and logged with console.error
logAccessAttempt(granted, audit) ==
    IF ~audit.enableAuditLogging THEN "skipped"
    ELSE IF audit.fails THEN "swallowed"
    ELSE IF ~granted THEN "warned"
    ELSE "built"

\* AuditStep that logs every return, the cache-hit return included
AuditStep_EveryReturn(r, audit) ==
    [r EXCEPT !.emitted = logAccessAttempt(r.ret, audit)]

\* The logAccessAttempt calls of hasPermission around the outcome r.  A call
\* that throws inside the try block leads to the catch block, which logs
\* again and returns false; a call that throws in the catch block leaves
\* hasPermission as an exception
AuditStep(r, audit) ==
    IF ~r.logged THEN [r EXCEPT !.emitted = "none"]
    ELSE LET first == logAccessAttempt(r.ret, audit)
             again == logAccessAttempt(FALSE, audit)
         IN IF first # "threw" THEN [r EXCEPT !.emitted = first]
            ELSE IF r.step = "catch" \/ again = "threw"
              THEN [r EXCEPT !.ret = FALSE, !.threw = TRUE, !.emitted = "threw"]
            ELSE [r EXCEPT !.ret = FALSE, !.step = "catch", !.emitted = again]

\* hasPermission up to its logAccessAttempt call
Decide(user, resource, action, scope, allRoles, options, cache, t, inherit) ==
    IF EarlyDenial(user) # ""
      THEN Returned(FALSE, cache, "early", EarlyDenial(user), options.logAccess, << >>)
    ELSE LET claim == createPermissionClaim(resource, action, scope)
         IN IF ~claim.ok
              THEN \* catch (error) { ... return false }
                   Returned(FALSE, cache, "catch", claim.error, options.logAccess, << >>)
            ELSE LET key == CacheKey(user.id, claim.value)
                     cached == IF options.useCache THEN MapGet(cache, key) ELSE << >>
                 IN IF options.useCache /\ CacheLive(cache, key, t)
                      THEN Returned(cache[key].result, cache, "hit", "", FALSE, cached)
                    ELSE LET c == ComputeAccess(user, claim.value, allRoles, inherit)
                             stored == IF options.useCache
                                         THEN MapSet(cache, key,
                                                     CacheEntry(c.hasAccess, t))
                                         ELSE cache
                         IN [Returned(c.hasAccess, stored, "computed", "",
                                      options.logAccess, cached)
                               EXCEPT !.source = c.source]

hasPermission(user, resource, action, scope, allRoles, options, cache, t, inherit, audit) ==
    AuditStep(Decide(user, resource, action, scope, allRoles, options, cache, t, inherit),
              audit)

\* InsufficientPermissions without the interpolated claim
InsufficientPermissions_NoClaim(resource, action, scope) ==
    Str("Insufficient permissions")

\* `Insufficient permissions: ${resource}:${action}:${scope}`
InsufficientPermissions(resource, action, scope) ==
    <<"Insufficient permissions", Colon, " ">>
      \o ColonJoin(resource, ColonJoin(action, scope))

\* checkAuthorization: {authorized, error}; error is << >> when undefined
checkAuthorization(user, resource, action, scope, allRoles, options, cache, t, inherit, audit) ==
    IF user = null
      THEN [authorized |-> FALSE, error |-> Str("User not authenticated"),
            cache |-> cache, threw |-> FALSE]
    ELSE IF ~user.isActive
      THEN [authorized |-> FALSE, error |-> Str("User account is inactive"),
            cache |-> cache, threw |-> FALSE]
    ELSE LET r == hasPermission(user, resource, action, scope, allRoles, options,
                                cache, t, inherit, audit)
         IN IF r.threw
              THEN [authorized |-> FALSE, error |-> Str("Authorization check failed"),
                    cache |-> r.cache, threw |-> FALSE]
            ELSE [authorized |-> r.ret,
                  error |-> IF r.ret THEN << >>
                            ELSE InsufficientPermissions(resource, action, scope),
                  cache |-> r.cache, threw |-> FALSE]

\* What `await getUserFromRequest(req)` leaves when the promise is rejected
LookupRejected == [rejected |-> TRUE]

\* checkRateLimit: the placeholder always allows
checkRateLimit(config) == [allowed |-> TRUE, remaining |-> config.maxRequests - 1]

\* user.profile?.mfaEnabled : falsy when the user has no profile
MfaEnabled(user) == "profile" \in DOMAIN user /\ user.profile.mfaEnabled

\* MfaMissing that never asks for the second factor
MfaMissing_Never(user, options) == FALSE

\* options.requireMFA && !user.profile?.mfaEnabled
MfaMissing(user, options) == options.requireMFA /\ ~MfaEnabled(user)

\* NextResponse.next() for status 200, NextResponse.json(..., {status}) else
Response(status, code, message, required, cache) ==
    [status |-> status, code |-> code, message |-> message, required |-> required,
     cache |-> cache]

\* The catch block of authMiddleware (logMiddlewareAccess catches its own
\* errors)
InternalError(cache) ==
    Response(500, "INTERNAL_ERROR",
             Str("An error occurred while checking permissions"), << >>, cache)

\* authMiddleware: the response returned.  `user` is what getUserFromRequest
\* resolved to, or LookupRejected.  options.customHeadersValid says whether
\* addSecurityHeaders can set the custom headers, options.requestReadable
\* whether building the context of the check from the request succeeds; a
\* failure of either is an exception inside the try block.
\* checkAuthorization receives {logAccess, context}: the cache is enabled.
authMiddleware(user, resource, action, scope, allRoles, options, cache, t, inherit, audit) ==
    IF ~options.customHeadersValid
      THEN InternalError(cache)
    ELSE IF options.rateLimit # << >> /\ ~checkRateLimit(options.rateLimit[1]).allowed
      THEN Response(429, "", Str("Too many requests. Please try again later."),
                    << >>, cache)
    ELSE IF user = LookupRejected
      THEN InternalError(cache)
    ELSE IF user = null /\ options.allowAnonymous
      THEN Response(200, "", << >>, << >>, cache)
    ELSE IF user = null
      THEN Response(401, "AUTH_REQUIRED", Str("Authentication required"), << >>, cache)
    ELSE IF MfaMissing(user, options)
      THEN Response(403, "MFA_REQUIRED",
                    Str("Multi-factor authentication is required for this resource"),
                    << >>, cache)
    ELSE IF ~options.requestReadable
      THEN InternalError(cache)
    ELSE LET authResult ==
               checkAuthorization(user, resource, action, scope, allRoles,
                                  [useCache |-> TRUE, logAccess |-> options.logAccess],
                                  cache, t, inherit, audit)
         IN IF ~authResult.authorized
              THEN Response(403, "INSUFFICIENT_PERMISSIONS",
                            IF authResult.error # << >> THEN authResult.error
                            ELSE Str("You do not have permission to access this resource"),
                            ColonJoin(resource, ColonJoin(action, scope)),
                            authResult.cache)
              ELSE Response(200, "", << >>, << >>, authResult.cache)

\* ClearedKeys as permissionCache.delete(userId): only a key equal to the id
ClearedKeys_ExactKey(cache, userId) == {k \in DOMAIN cache : k = userId}

\* clearPermissionCache(userId): deletes the keys that start with `${userId}:`
ClearedKeys(cache, userId) ==
    {k \in DOMAIN cache : StartsWith(k, userId \o <<Colon>>)}

\* userId is falsy when absent or the empty string: the whole cache is cleared
clearPermissionCache(cache, userId) ==
    IF userId # << >>
      THEN MapDeleteAll(cache, ClearedKeys(cache, userId))
      ELSE EmptyMap

-----------------------------------------------------------------------------
(* Inputs of the decision engine *)

MaxTicks == 2

P1 == <<"member", Colon, "view", Colon, "all">>
P2 == <<"member", Colon, "view", Colon, "assigned">>
P3 == <<"member", Colon, "delete", Colon, "all">>
P4 == <<"member", Colon, "view", Colon, "none">>

Role(id, isActive, permissions, inheritsFrom) ==
    [id |-> id, name |-> <<" role ", id>>, isActive |-> isActive,
     permissions |-> permissions, inheritsFrom |-> inheritsFrom]

User(id, isActive, userRoles, directPermissions) ==
    [id |-> id, isActive |-> isActive, roles |-> userRoles,
     directPermissions |-> directPermissions]

\* Principal ids; one is a prefix of the other up to a colon ("a", "a:b")
UserIds == {<<"a">>, <<"a", Colon, "b">>}

\* Principals handed to decide: with a direct grant (one per id), with a
\* role, inactive
EngineUsers ==
    {User(id, TRUE, << >>, <<P1>>) : id \in UserIds}
      \cup {User(<<"a">>, TRUE, <<"A">>, << >>), User(<<"a">>, FALSE, <<"A">>, <<P1>>)}

\* Role lists handed to decide: A inherits P1 from B (and B from A), once
\* with B active and once with B inactive
EngineRoleLists ==
    {<<Role("A", TRUE, << >>, <<"B">>), Role("B", act, <<P1>>, <<"A">>)>> :
        act \in BOOLEAN}

\* (resource, action, scope) triples requested: one valid, one with a
\* resource outside the enumeration
EngineRequests ==
    {<<Str("member"), Str("view"), Str("all")>>,
     <<Str("bogus"), Str("view"), Str("all")>>}

Options(useCache, logAccess) == [useCache |-> useCache, logAccess |-> logAccess]

\* The options of authMiddleware; rateLimit is << >> when not configured
MiddlewareOptions(allowAnonymous, requireMFA, rateLimit, customHeadersValid, requestReadable) ==
    [allowAnonymous |-> allowAnonymous, logAccess |-> FALSE,
     requireMFA |-> requireMFA, rateLimit |-> rateLimit,
     customHeadersValid |-> customHeadersValid, requestReadable |-> requestReadable]

\* A user with a profile (AuthorizedUser.profile.mfaEnabled)
WithProfile(user, mfaEnabled) ==
    [f \in (DOMAIN user) \cup {"profile"} |->
        IF f = "profile" THEN [mfaEnabled |-> mfaEnabled] ELSE user[f]]

\* The audit channel: the feature flag of APP_CONFIG and whether emitting
\* a record throws
Audit(enableAuditLogging, fails) ==
    [enableAuditLogging |-> enableAuditLogging, fails |-> fails]

\* APP_CONFIG.features.enableAuditLogging as configured, a working emitter
ConfiguredAudit == Audit(TRUE, FALSE)

\* Clock advances: one millisecond, or one millisecond short of the TTL
TickSteps == {1, CACHE_TTL - 1}

-----------------------------------------------------------------------------
(* The operations as actions *)

NoCall ==
    [op |-> "none", user |-> null, request |-> << >>, useCache |-> FALSE,
     claim |-> << >>, ret |-> FALSE, threw |-> FALSE, step |-> "", reason |-> "",
     perms |-> << >>, userId |-> << >>, role |-> 0, cached |-> << >>,
     afterClear |-> FALSE, stored |-> << >>, prior |-> << >>, source |-> << >>,
     error |-> << >>, response |-> << >>, allowAnonymous |-> FALSE,
     result |-> << >>, permB |-> << >>, emitted |-> "none", userAfter |-> null,
     sortByRisk |-> FALSE, requireMFA |-> FALSE, rateLimit |-> << >>,
     customHeadersValid |-> TRUE, requestReadable |-> TRUE]

RequestClaim(req) ==
    LET c == createPermissionClaim(req[1], req[2], req[3])
    IN IF c.ok THEN c.value ELSE << >>

\* What a cache-enabled hasPermission call that reached the computation has
\* put into the cache (history kept for the store properties): the key, the
\* entry, and whether an earlier entry was overwritten
StoredBy(user, req, options, r) ==
    IF options.useCache /\ r.step = "computed"
      THEN <<[key |-> CacheKey(user.id, RequestClaim(req)),
              result |-> r.ret, timestamp |-> now,
              overwrote |-> r.cached # << >>]>>
      ELSE << >>

\* Whether the operation just before this call was a clearPermissionCache
\* that covers the principal (history kept for the invalidation properties)
ClearedFor(user) ==
    /\ last.op = "clearPermissionCache"
    /\ user # null
    /\ last.userId \in {<< >>, user.id}

AuditedHasPermission(user, req, allRoles, options, audit) ==
    LET r == hasPermission(user, req[1], req[2], req[3], allRoles, options,
                           permissionCache, now, enableRoleInheritance, audit)
    IN /\ permissionCache' = r.cache
       /\ roles' = allRoles
       /\ last' = [NoCall EXCEPT !.op = "hasPermission", !.user = user,
                     !.request = req, !.useCache = options.useCache,
                     !.claim = RequestClaim(req),
                     !.ret = r.ret, !.threw = r.threw, !.step = r.step,
                     !.reason = r.reason, !.source = r.source,
                     !.cached = r.cached,
                     !.afterClear = ClearedFor(user),
                     !.stored = StoredBy(user, req, options, r),
                     !.prior = last.stored, !.emitted = r.emitted]
       /\ UNCHANGED <<now, ticks, enableRoleInheritance, stack, calls>>

HasPermission(user, req, allRoles, options) ==
    AuditedHasPermission(user, req, allRoles, options, ConfiguredAudit)

CheckAuthorization(user, req, allRoles, options) ==
    LET r == checkAuthorization(user, req[1], req[2], req[3], allRoles, options,
                                permissionCache, now, enableRoleInheritance,
                                ConfiguredAudit)
    IN /\ permissionCache' = r.cache
       /\ roles' = allRoles
       /\ last' = [NoCall EXCEPT !.op = "checkAuthorization", !.user = user,
                     !.request = req, !.useCache = options.useCache,
                     !.claim = RequestClaim(req),
                     !.ret = r.authorized, !.threw = r.threw, !.error = r.error]
       /\ UNCHANGED <<now, ticks, enableRoleInheritance, stack, calls>>

ClearPermissionCache(userId) ==
    /\ permissionCache' = clearPermissionCache(permissionCache, userId)
    /\ last' = [NoCall EXCEPT !.op = "clearPermissionCache", !.userId = userId]
    /\ UNCHANGED <<now, ticks, enableRoleInheritance, roles, stack, calls>>

Tick(d) ==
    /\ ticks < MaxTicks
    /\ now' = now + d
    /\ ticks' = ticks + 1
    /\ last' = [NoCall EXCEPT !.op = "tick", !.stored = last.stored]
    /\ UNCHANGED <<permissionCache, enableRoleInheritance, roles, stack, calls>>

Init ==
    /\ permissionCache = EmptyMap
    /\ now = 0
    /\ ticks = 0
    /\ enableRoleInheritance = TRUE
    /\ roles = << >>
    /\ last = NoCall
    /\ stack = << >>
    /\ calls = << >>

Next ==
    \/ \E user \in EngineUsers \cup {null}, req \in EngineRequests,
          allRoles \in EngineRoleLists, useCache \in BOOLEAN :
            HasPermission(user, req, allRoles, Options(useCache, FALSE))
    \/ \E user \in EngineUsers, req \in EngineRequests, allRoles \in EngineRoleLists :
            CheckAuthorization(user, req, allRoles, Options(TRUE, FALSE))
    \/ \E userId \in UserIds \cup {<< >>} : ClearPermissionCache(userId)
    \/ \E d \in TickSteps : Tick(d)

Spec == Init /\ [][Next]_vars

-----------------------------------------------------------------------------
(* The role resolver on its own: the role list is drawn once, the          *)
(* operations are applied to it.                                           *)

MaxParents == 2

\* Ids of the roles of a list, in list order; the second has a duplicate id
RoleIdSeqs == {<<"A", "B", "C">>, <<"A", "B", "B">>}

\* Ids that inheritsFrom may name, in the order they are listed; "C" names
\* no role of the list <<A, B, B>>
ParentOrder == <<"A", "B", "C">>

\* inheritsFrom lists: no id twice, in ParentOrder
InheritsFromLists ==
    UNION {{[i \in 1..n |-> ParentOrder[f[i]]] :
              f \in {g \in [1..n -> 1..Len(ParentOrder)] :
                       \A i, j \in 1..n : i < j => g[i] < g[j]}} :
           n \in 0..MaxParents}

PermissionLists == {<< >>, <<P1>>}

RoleLists ==
    {[i \in 1..3 |-> Role(ids[i], act[i], perms[i], parents[i])] :
        ids \in RoleIdSeqs, act \in [1..3 -> BOOLEAN],
        perms \in [1..3 -> PermissionLists],
        parents \in [1..3 -> InheritsFromLists]}

\* The role positions a principal holds: present, active, id held
HeldRoles(user, allRoles) ==
    {i \in 1..Len(allRoles) : Includes(user.roles, allRoles[i].id) /\ allRoles[i].isActive}

\* Principals of the resolver runs
ResolverUsers ==
    {User(<<"a">>, TRUE, <<"A">>, << >>), User(<<"a">>, TRUE, <<"B">>, << >>),
     User(<<"a">>, TRUE, <<"A">>, <<P1>>), User(<<"a">>, FALSE, <<"A">>, <<P1>>),
     User(<<"a">>, TRUE, <<"C", "B">>, << >>),
     User(<<"a">>, TRUE, <<"A">>, <<P1, P3>>)}

\* The role list after getRoleEffectivePermissions has run for the roles S:
\* each built its Set from role.permissions and added to it
RolesAfter(S) ==
    [i \in 1..Len(roles) |->
        IF i \in S
          THEN [roles[i] EXCEPT !.permissions =
                  Written(roles[i].permissions, Fresh(roles[i].permissions),
                          getRoleEffectivePermissions(roles[i], roles, {},
                                                      enableRoleInheritance))]
          ELSE roles[i]]

GetRoleEffectivePermissions(i) ==
    /\ last' = [NoCall EXCEPT !.op = "getRoleEffectivePermissions", !.role = i,
                  !.perms = getRoleEffectivePermissions(roles[i], roles, {},
                                                        enableRoleInheritance)]
    /\ roles' = RolesAfter({i})
    /\ UNCHANGED <<permissionCache, now, ticks, enableRoleInheritance, stack, calls>>

RoleHasPermission(i, permissionToCheck) ==
    /\ last' = [NoCall EXCEPT !.op = "roleHasPermission", !.role = i,
                  !.claim = permissionToCheck,
                  !.ret = roleHasPermission(roles[i], permissionToCheck, roles, {},
                                            enableRoleInheritance)]
    /\ UNCHANGED <<permissionCache, now, ticks, enableRoleInheritance, roles, stack, calls>>

GetUserEffectivePermissions(user, options) ==
    LET collected == getUserEffectivePermissions(user, roles, enableRoleInheritance)
        permissionsArray == IF options.sortByRisk THEN sortByRisk(collected)
                            ELSE collected
    IN /\ last' = [NoCall EXCEPT !.op = "getUserEffectivePermissions",
                     !.user = user, !.perms = permissionsArray,
                     !.sortByRisk = options.sortByRisk,
                     !.userAfter =
                        [user EXCEPT !.directPermissions =
                           Written(user.directPermissions,
                                   Fresh(user.directPermissions), permissionsArray)]]
       /\ roles' = RolesAfter(HeldRoles(user, roles))
       /\ UNCHANGED <<permissionCache, now, ticks, enableRoleInheritance, stack, calls>>

RInit ==
    /\ permissionCache = EmptyMap
    /\ now = 0
    /\ ticks = 0
    /\ enableRoleInheritance \in BOOLEAN
    /\ roles \in RoleLists
    /\ last = NoCall
    /\ stack = << >>
    /\ calls = << >>

RNext ==
    /\ last.op = "none"
    /\ \/ \E i \in 1..Len(roles) : GetRoleEffectivePermissions(i)
       \/ \E i \in 1..Len(roles) : RoleHasPermission(i, P1)
       \/ \E user \in ResolverUsers, byRisk \in BOOLEAN :
            GetUserEffectivePermissions(user, [sortByRisk |-> byRisk])
       \/ \E user \in ResolverUsers :
            HasPermission(user, <<Str("member"), Str("view"), Str("all")>>, roles,
                          Options(FALSE, FALSE))

SpecResolver == RInit /\ [][RNext]_vars

-----------------------------------------------------------------------------
(* The role traversal call by call: every invocation of                    *)
(* getRoleEffectivePermissions ("collect") or roleHasPermission ("check")  *)
(* is a frame of the call stack.                                           *)

MaxStack == 6

\* Role lists of the traversal runs: only the last role may hold P1
TraversalRoleLists ==
    {rs \in RoleLists : rs[1].permissions = << >> /\ rs[2].permissions = << >>}

\* A frame: the role (position in roles), the visited set it received, where
\* it stands (enter, loop over inheritsFrom at index k, return), and what it
\* has accumulated (acc) or decided (val)
Frame(fn, role, visited) ==
    [fn |-> fn, role |-> role, visited |-> visited, pc |-> "enter", k |-> 1,
     acc |-> << >>, val |-> FALSE]

Top == stack[Len(stack)]

ReplaceTop(f) == [stack EXCEPT ![Len(stack)] = f]

\* Pop the top frame and replace the caller's frame by f
ReplaceTop2(f) == [SubSeq(stack, 1, Len(stack) - 1) EXCEPT ![Len(stack) - 1] = f]

\* VisitedAdd that forgets the role: visited is never extended
VisitedAdd_Forgotten(visited, id) == visited

\* visited.add(role.id)
VisitedAdd(visited, id) == visited \cup {id}

\* The head of the function body, up to the loop over inheritsFrom
EnterFrame(f) ==
    LET role == roles[f.role]
        v == VisitedAdd(f.visited, role.id)
        descend == enableRoleInheritance /\ Len(role.inheritsFrom) > 0
    IN IF role.id \in f.visited
         THEN [f EXCEPT !.pc = "return"]
       ELSE IF f.fn = "collect"
         THEN [f EXCEPT !.visited = v,
                        !.acc = SetAddAll(<< >>, role.permissions),
                        !.pc = IF descend THEN "loop" ELSE "return"]
       ELSE IF ~role.isActive
         THEN [f EXCEPT !.visited = v, !.pc = "return"]
       ELSE IF Includes(role.permissions, P1)
         THEN [f EXCEPT !.visited = v, !.val = TRUE, !.pc = "return"]
       ELSE [f EXCEPT !.visited = v, !.pc = IF descend THEN "loop" ELSE "return"]

\* The parent a frame descends into at index k, 0 when the id is skipped
ParentAt(f) ==
    LET id == roles[f.role].inheritsFrom[f.k]
    IN IF f.fn = "collect" THEN ParentOfCollect(roles, id) ELSE ParentOfCheck(roles, id)

\* The caller after the callee g has returned into it
Resume(f, g) ==
    IF f.fn = "collect"
      THEN [f EXCEPT !.acc = SetAddAll(f.acc, g.acc), !.k = f.k + 1]
    ELSE IF g.val THEN [f EXCEPT !.val = TRUE, !.pc = "return"]
    ELSE [f EXCEPT !.k = f.k + 1]

TStart(fn, i) ==
    /\ stack = << >> /\ last.op = "none"
    /\ stack' = <<Frame(fn, i, {})>>
    /\ last' = [NoCall EXCEPT !.op = "calling", !.role = i, !.claim = P1]
    /\ UNCHANGED <<permissionCache, now, ticks, enableRoleInheritance, roles, calls>>

TEnter ==
    /\ stack # << >> /\ Top.pc = "enter"
    /\ stack' = ReplaceTop(EnterFrame(Top))
    /\ UNCHANGED <<permissionCache, now, ticks, enableRoleInheritance, roles, last, calls>>

TLoopEnd ==
    /\ stack # << >> /\ Top.pc = "loop"
    /\ Top.k > Len(roles[Top.role].inheritsFrom)
    /\ stack' = ReplaceTop([Top EXCEPT !.pc = "return"])
    /\ UNCHANGED <<permissionCache, now, ticks, enableRoleInheritance, roles, last, calls>>

TSkip ==
    /\ stack # << >> /\ Top.pc = "loop"
    /\ Top.k <= Len(roles[Top.role].inheritsFrom)
    /\ ParentAt(Top) = 0
    /\ stack' = ReplaceTop([Top EXCEPT !.k = Top.k + 1])
    /\ UNCHANGED <<permissionCache, now, ticks, enableRoleInheritance, roles, last, calls>>

TCall ==
    /\ stack # << >> /\ Top.pc = "loop"
    /\ Top.k <= Len(roles[Top.role].inheritsFrom)
    /\ ParentAt(Top) # 0
    /\ Len(stack) < MaxStack
    /\ stack' = Append(stack, Frame(Top.fn, ParentAt(Top), Top.visited))
    /\ UNCHANGED <<permissionCache, now, ticks, enableRoleInheritance, roles, last, calls>>

TReturn ==
    /\ stack # << >> /\ Top.pc = "return"
    /\ IF Len(stack) = 1
         THEN /\ stack' = << >>
              /\ last' = [last EXCEPT
                            !.op = IF Top.fn = "collect"
                                     THEN "getRoleEffectivePermissions"
                                     ELSE "roleHasPermission",
                            !.perms = Top.acc, !.ret = Top.val]
         ELSE /\ stack' = ReplaceTop2(Resume(stack[Len(stack) - 1], Top))
              /\ UNCHANGED last
    /\ UNCHANGED <<permissionCache, now, ticks, enableRoleInheritance, roles, calls>>

TInit ==
    /\ permissionCache = EmptyMap
    /\ now = 0
    /\ ticks = 0
    /\ enableRoleInheritance \in BOOLEAN
    /\ roles \in TraversalRoleLists
    /\ last = NoCall
    /\ stack = << >>
    /\ calls = << >>

TNext ==
    \/ \E fn \in {"collect", "check"}, i \in 1..Len(roles) : TStart(fn, i)
    \/ TEnter
    \/ TLoopEnd
    \/ TSkip
    \/ TCall
    \/ TReturn

\* A call, once made, runs on: the JavaScript engine executes it to the end
SpecTraversal == TInit /\ [][TNext]_vars /\ WF_vars(TEnter \/ TLoopEnd \/ TSkip \/ TCall \/ TReturn)

-----------------------------------------------------------------------------
(* Properties of the role resolver *)

AsSet(arr) == {arr[i] : i \in 1..Len(arr)}

NoDuplicates(arr) == \A i, j \in 1..Len(arr) : i # j => arr[i] # arr[j]

DistinctIds(allRoles) ==
    \A i, j \in 1..Len(allRoles) : i # j => allRoles[i].id # allRoles[j].id

AllActive(allRoles) == \A i \in 1..Len(allRoles) : allRoles[i].isActive

\* Roles (positions) that some role of S names in inheritsFrom
NamedBy(S, allRoles) ==
    {j \in 1..Len(allRoles) :
        \E i \in S : Includes(allRoles[i].inheritsFrom, allRoles[j].id)}

\* Positions reachable from S along inheritsFrom edges
RECURSIVE ReachableFrom(_, _)
ReachableFrom(S, allRoles) ==
    LET T == S \cup NamedBy(S, allRoles)
    IN IF T = S THEN S ELSE ReachableFrom(T, allRoles)

\* Positions reachable from S along inheritsFrom edges through active roles
RECURSIVE ActiveReachableFrom(_, _)
ActiveReachableFrom(S, allRoles) ==
    LET T == S \cup {j \in NamedBy(S, allRoles) : allRoles[j].isActive}
    IN IF T = S THEN S ELSE ActiveReachableFrom(T, allRoles)

PermissionsOf(S, allRoles) == UNION {AsSet(allRoles[i].permissions) : i \in S}

\* C2: for an active principal, a valid claim and no live cache entry,
\* hasPermission grants if and only if the claim is a direct permission or is
\* in getRoleEffectivePermissions of some role of allRoles that is active and
\* held by the principal -- for every role list, duplicate ids included.
C2_DecideIffEffective ==
    (last.op = "hasPermission" /\ last.step = "computed")
      => (last.ret <=>
            \/ Includes(last.user.directPermissions, last.claim)
            \/ \E i \in HeldRoles(last.user, roles) :
                 Includes(getRoleEffectivePermissions(roles[i], roles, {},
                                                     enableRoleInheritance),
                          last.claim))

\* C5: with inheritance enabled, all roles active and role ids distinct,
\* getRoleEffectivePermissions(R, allRoles) is, without duplicates, the union
\* of the direct permissions of R and of every role reachable from R.
C5_ClosureIsUnion ==
    (/\ last.op = "getRoleEffectivePermissions"
     /\ enableRoleInheritance /\ AllActive(roles) /\ DistinctIds(roles))
      => /\ NoDuplicates(last.perms)
         /\ AsSet(last.perms) = PermissionsOf(ReachableFrom({last.role}, roles), roles)

\* C5 witness: A and B inherit from each other, only B holds P1, and the
\* resolution of A has returned P1.
C5_Witness ==
    /\ last.op = "getRoleEffectivePermissions" /\ last.role = 1
    /\ enableRoleInheritance /\ AllActive(roles) /\ DistinctIds(roles)
    /\ Includes(roles[1].inheritsFrom, "B") /\ Includes(roles[2].inheritsFrom, "A")
    /\ roles[1].permissions = << >> /\ roles[2].permissions = <<P1>>
    /\ roles[3].permissions = <<P1>> /\ Includes(roles[1].inheritsFrom, "C")
    /\ last.perms = <<P1>>

\* C6: a claim that an active role reaches only through an inactive role is
\* neither in getRoleEffectivePermissions of that role nor granted by
\* roleHasPermission or hasPermission: whatever is returned or granted is a
\* direct permission of a role reached through active roles only.
C6_InactivePruned ==
    /\ (last.op = "getRoleEffectivePermissions" /\ roles[last.role].isActive)
         => AsSet(last.perms)
              \subseteq PermissionsOf(ActiveReachableFrom({last.role}, roles), roles)
    /\ (last.op = "roleHasPermission" /\ last.ret)
         => /\ roles[last.role].isActive
            /\ last.claim \in PermissionsOf(ActiveReachableFrom({last.role}, roles), roles)
    /\ (last.op = "hasPermission" /\ last.step = "computed" /\ last.ret)
         => \/ Includes(last.user.directPermissions, last.claim)
            \/ last.claim \in PermissionsOf(
                 ActiveReachableFrom(HeldRoles(last.user, roles), roles), roles)

\* C6 witness: active A names inactive B, B holds P1 and names active C, C
\* holds P1; the resolution of A has returned nothing.
C6_Witness ==
    /\ last.op = "getRoleEffectivePermissions" /\ last.role = 1
    /\ enableRoleInheritance /\ DistinctIds(roles)
    /\ roles[1].isActive /\ ~roles[2].isActive /\ roles[3].isActive
    /\ roles[1].inheritsFrom = <<"B">> /\ roles[2].inheritsFrom = <<"C">>
    /\ roles[1].permissions = << >>
    /\ roles[2].permissions = <<P1>> /\ roles[3].permissions = <<P1>>
    /\ last.perms = << >>

-----------------------------------------------------------------------------
(* Properties of the traversal *)

DistinctRoleIds == Cardinality({roles[i].id : i \in 1..Len(roles)})

\* A traversal has returned to its caller
TraversalDone ==
    /\ stack = << >>
    /\ last.op \in {"getRoleEffectivePermissions", "roleHasPermission"}

\* Calls nested inside the entry call of the traversal
RecursionDepth == IF stack = << >> THEN 0 ELSE Len(stack) - 1

\* The recursive operators and the call-by-call traversal return the same
TraversalMatchesOperators ==
    TraversalDone =>
      /\ last.op = "getRoleEffectivePermissions" =>
           last.perms = getRoleEffectivePermissions(roles[last.role], roles, {},
                                                    enableRoleInheritance)
      /\ last.op = "roleHasPermission" =>
           last.ret = roleHasPermission(roles[last.role], P1, roles, {},
                                        enableRoleInheritance)

\* C4: getRoleEffectivePermissions and roleHasPermission terminate on every
\* role list and inheritsFrom graph (self-inheritance, mutual inheritance,
\* longer cycles, diamonds), and the recursion is never deeper than the number
\* of distinct role ids: at most that many calls are nested inside the entry
\* call (the innermost of them is the call that finds its role visited).
C4_TerminatesWithinDepth ==
    /\ [](RecursionDepth <= DistinctRoleIds)
    /\ (last.op = "calling") ~> TraversalDone

\* C4 witness: A -> B -> C -> A is a cycle, all three active, and the
\* traversal from A has reached the frame that meets A again.
C4_Witness ==
    /\ DistinctRoleIds = 3 /\ AllActive(roles)
    /\ Includes(roles[1].inheritsFrom, "B") /\ Includes(roles[2].inheritsFrom, "C")
    /\ Includes(roles[3].inheritsFrom, "A")
    /\ Len(stack) = 4 /\ stack[1].role = 1 /\ stack[4].role = 1
    /\ stack[4].pc = "return"

-----------------------------------------------------------------------------
(* Properties of the decision engine and its cache *)

IsDecision == last.op \in {"hasPermission", "checkAuthorization"}

ActivePrincipal == last.user # null /\ last.user.isActive

-----------------------------------------------------------------------------
(* The guard layer (with-authorization, auth middleware) on its own: one   *)
(* principal id, decisions through checkAuthorization and authMiddleware.  *)

GuardUsers == {u \in EngineUsers : u.id = <<"a">>}

AuthMiddleware(user, req, allRoles, options) ==
    LET r == authMiddleware(user, req[1], req[2], req[3], allRoles, options,
                            permissionCache, now, enableRoleInheritance,
                            ConfiguredAudit)
    IN /\ permissionCache' = r.cache
       /\ roles' = allRoles
       /\ last' = [NoCall EXCEPT !.op = "authMiddleware", !.user = user,
                     !.request = req, !.useCache = TRUE,
                     !.claim = RequestClaim(req),
                     !.allowAnonymous = options.allowAnonymous,
                     !.requireMFA = options.requireMFA,
                     !.rateLimit = options.rateLimit,
                     !.customHeadersValid = options.customHeadersValid,
                     !.requestReadable = options.requestReadable,
                     !.ret = (r.status = 200), !.response = <<r>>]
       /\ UNCHANGED <<now, ticks, enableRoleInheritance, stack, calls>>

GNext ==
    \/ \E user \in GuardUsers \cup {null}, req \in EngineRequests,
          allRoles \in EngineRoleLists, useCache \in BOOLEAN :
            CheckAuthorization(user, req, allRoles, Options(useCache, FALSE))
    \/ \E user \in GuardUsers \cup {null}, req \in EngineRequests,
          allRoles \in EngineRoleLists, allowAnonymous \in BOOLEAN :
            AuthMiddleware(user, req, allRoles,
                           MiddlewareOptions(allowAnonymous, FALSE, << >>, TRUE, TRUE))
    \/ \E d \in TickSteps : Tick(d)

SpecGuard == Init /\ [][GNext]_vars

-----------------------------------------------------------------------------
(* The decision engine with its audit channel: hasPermission with and      *)
(* without logAccess, the feature flag on and off, the emitter working or  *)
(* throwing.                                                               *)

\* Principals of the audited calls: absent, inactive, active with a role
AuditUsers == {u \in GuardUsers : u.directPermissions = << >> \/ ~u.isActive}

ANext ==
    \/ \E user \in AuditUsers \cup {null}, req \in EngineRequests,
          allRoles \in EngineRoleLists, useCache \in BOOLEAN, logAccess \in BOOLEAN,
          enableAuditLogging \in BOOLEAN, fails \in BOOLEAN :
            AuditedHasPermission(user, req, allRoles, Options(useCache, logAccess),
                                 Audit(enableAuditLogging, fails))
    \/ \E d \in TickSteps : Tick(d)

SpecAudit == Init /\ [][ANext]_vars

-----------------------------------------------------------------------------
(* Decisions over claims that differ in scope or action only: what is held *)
(* (directly, by a role, by a parent role) against what is requested.      *)

MaxHeld == 2

\* Claims held: broad and narrow scope, scope none, a riskier action
HeldClaims == {P1, P2, P3, P4}

\* Permission lists of at most MaxHeld claims, none twice
HeldLists ==
    UNION {{l \in [1..n -> HeldClaims] : \A i, j \in 1..n : i # j => l[i] # l[j]} :
           n \in 0..MaxHeld}

\* (resource, action, scope) triples requested
ScopedRequests ==
    {<<Str("member"), Str(a), Str(sc)>> :
        a \in {"view", "delete"}, sc \in {"all", "assigned", "owned", "none"}}

XNext ==
    /\ last.op = "none"
    /\ \E direct \in HeldLists, own \in HeldLists, inherited \in HeldLists,
          req \in ScopedRequests :
            HasPermission(User(<<"a">>, TRUE, <<"A">>, direct), req,
                          <<Role("A", TRUE, own, <<"B">>),
                            Role("B", TRUE, inherited, << >>)>>,
                          Options(FALSE, FALSE))

SpecExact == Init /\ [][XNext]_vars

-----------------------------------------------------------------------------
(* Several principals sharing the decision cache: ids that are prefixes of *)
(* one another up to a colon, and ids that end like the start of a claim.  *)

IsolationIds ==
    {<<"a">>, <<"a", Colon, "member">>, <<"a", Colon, "member", Colon, "view">>}

\* One principal for each id, each with its own direct grants
IsolationGrants(id) ==
    CASE id = <<"a">>                  -> <<P1>>
      [] id = <<"a", Colon, "member">> -> <<P1, P3>>
      [] OTHER                         -> << >>

IsolationUsers == {User(id, TRUE, << >>, IsolationGrants(id)) : id \in IsolationIds}

IsolationRequests ==
    {<<Str("member"), Str("view"), Str("all")>>,
     <<Str("member"), Str("delete"), Str("all")>>}

INext ==
    \E user \in IsolationUsers, req \in IsolationRequests, useCache \in BOOLEAN :
        HasPermission(user, req, << >>, Options(useCache, FALSE))

SpecIsolation == Init /\ [][INext]_vars

-----------------------------------------------------------------------------
(* What a hasPermission call does to the cache: every kind of principal,   *)
(* requests that pass and that fail createPermissionClaim, the clock.      *)

\* Principals: active with a grant, inactive
FrameUsers ==
    {User(<<"a">>, TRUE, << >>, <<P1>>), User(<<"c">>, FALSE, << >>, <<P1>>)}

\* Requests: a triple of the enumerations, a resource outside them, an
\* action that only Object.prototype knows
FrameRequests ==
    {<<Str("member"), Str("view"), Str("all")>>,
     <<Str("bogus"), Str("view"), Str("all")>>,
     <<Str("member"), Str("constructor"), Str("all")>>}

FNext ==
    \/ \E user \in FrameUsers \cup {null}, req \in FrameRequests, useCache \in BOOLEAN :
            HasPermission(user, req, << >>, Options(useCache, FALSE))
    \/ \E d \in TickSteps : Tick(d)

SpecFrame == Init /\ [][FNext]_vars

-----------------------------------------------------------------------------
(* hasPermission with the cache and access logging both on, the audit      *)
(* feature enabled and a working emitter.                                  *)

LNext ==
    \/ \E user \in GuardUsers \cup {null}, req \in EngineRequests,
          allRoles \in EngineRoleLists :
            AuditedHasPermission(user, req, allRoles, Options(TRUE, TRUE),
                                 ConfiguredAudit)
    \/ \E d \in TickSteps : Tick(d)

SpecLogged == Init /\ [][LNext]_vars

-----------------------------------------------------------------------------
(* authMiddleware with all its options, every outcome of the user lookup   *)
(* and requests on which a step of the handler throws.                     *)

\* What getUserFromRequest resolves to: users without a profile, with the
\* second factor enabled and not, with and without the claim, inactive
MiddlewareUsers ==
    {User(<<"a">>, TRUE, << >>, <<P1>>),
     WithProfile(User(<<"a">>, TRUE, << >>, <<P1>>), TRUE),
     WithProfile(User(<<"a">>, TRUE, << >>, <<P1>>), FALSE),
     WithProfile(User(<<"b">>, TRUE, << >>, << >>), TRUE),
     WithProfile(User(<<"c">>, FALSE, << >>, <<P1>>), TRUE)}

RateLimits == {<< >>, <<[maxRequests |-> 1, windowMs |-> 1000]>>}

MNext ==
    \E user \in MiddlewareUsers \cup {null, LookupRejected}, req \in EngineRequests,
       allowAnonymous \in BOOLEAN, requireMFA \in BOOLEAN, rateLimit \in RateLimits,
       customHeadersValid \in BOOLEAN, requestReadable \in BOOLEAN :
         AuthMiddleware(user, req, << >>,
                        MiddlewareOptions(allowAnonymous, requireMFA, rateLimit,
                                          customHeadersValid, requestReadable))

SpecMiddleware == Init /\ [][MNext]_vars

-----------------------------------------------------------------------------
(* The resolver and decide on role ids that name no role of the list: "X"  *)
(* among the roles of the principal and among the parents of role A,       *)
(* before and after an id that does name a role.                           *)

DanglingParents == {<< >>, <<"B">>, <<"X">>, <<"X", "B">>, <<"B", "X">>}

DanglingRoleLists ==
    {<<Role("B", act, permsB, << >>), Role("A", TRUE, permsA, parents)>> :
        act \in BOOLEAN, permsB \in {<< >>, <<P1>>, <<P3>>},
        permsA \in {<< >>, <<P3>>}, parents \in DanglingParents}

DanglingUsers ==
    {User(<<"a">>, TRUE, held, direct) :
        held \in {<<"A">>, <<"X">>, <<"X", "A">>, <<"A", "X">>, <<"X", "B">>},
        direct \in {<< >>, <<P3>>}}

DInit ==
    /\ permissionCache = EmptyMap
    /\ now = 0
    /\ ticks = 0
    /\ enableRoleInheritance \in BOOLEAN
    /\ roles \in DanglingRoleLists
    /\ last = NoCall
    /\ stack = << >>
    /\ calls = << >>

DNext ==
    /\ last.op = "none"
    /\ \/ \E i \in 1..Len(roles) : GetRoleEffectivePermissions(i)
       \/ \E i \in 1..Len(roles), claim \in {P1, P3} : RoleHasPermission(i, claim)
       \/ \E user \in DanglingUsers :
            GetUserEffectivePermissions(user, [sortByRisk |-> FALSE])
       \/ \E user \in DanglingUsers, action \in {"view", "delete"} :
            HasPermission(user, <<Str("member"), Str(action), Str("all")>>, roles,
                          Options(FALSE, FALSE))

SpecDangling == DInit /\ [][DNext]_vars

-----------------------------------------------------------------------------
(* hasPermission calls side by side: several calls for the same principal, *)
(* claim and role list, each taking its cache read, its computation and    *)
(* its cache write as separate steps, in every order.  (The JavaScript     *)
(* runtime runs each call to completion; every order it can produce is     *)
(* among these.)                                                           *)

NumCalls == 2

\* Principals of the concurrent calls: a grant through role A, a direct grant
ConcurrentUsers ==
    {User(<<"a">>, TRUE, <<"A">>, << >>), User(<<"a">>, TRUE, << >>, <<P1>>)}

\* A call before its first step
Idle(user) ==
    [pc |-> "check", user |-> user, hasAccess |-> FALSE, ret |-> FALSE,
     missed |-> FALSE, wrote |-> << >>]

\* Lines 786-794: the cache read; a live entry ends the call
KCheck(c) ==
    LET key == CacheKey(calls[c].user.id, P1)
    IN /\ calls[c].pc = "check"
       /\ calls' = [calls EXCEPT ![c] =
                      IF CacheLive(permissionCache, key, now)
                        THEN [@ EXCEPT !.pc = "done", !.ret = permissionCache[key].result]
                        ELSE [@ EXCEPT !.pc = "compute", !.missed = TRUE]]
       /\ UNCHANGED <<permissionCache, now, ticks, enableRoleInheritance, roles, last,
                      stack>>

\* Lines 796-815: direct permissions, then roles
KCompute(c) ==
    /\ calls[c].pc = "compute"
    /\ calls' = [calls EXCEPT ![c] =
                   [@ EXCEPT !.pc = "store",
                             !.hasAccess = ComputeAccess(calls[c].user, P1, roles,
                                                         enableRoleInheritance).hasAccess]]
    /\ UNCHANGED <<permissionCache, now, ticks, enableRoleInheritance, roles, last,
                   stack>>

\* Lines 817-843: the cache write and the return
KStore(c) ==
    LET key == CacheKey(calls[c].user.id, P1)
        entry == CacheEntry(calls[c].hasAccess, now)
    IN /\ calls[c].pc = "store"
       /\ permissionCache' = MapSet(permissionCache, key, entry)
       /\ calls' = [calls EXCEPT ![c] =
                      [@ EXCEPT !.pc = "done", !.ret = calls[c].hasAccess,
                                !.wrote = <<entry>>]]
       /\ UNCHANGED <<now, ticks, enableRoleInheritance, roles, last, stack>>

\* The cache may hold an entry of an earlier decision for the pair, either
\* verdict, stored when the clock started
KInit ==
    /\ permissionCache \in
         {EmptyMap} \cup {MapSet(EmptyMap, CacheKey(<<"a">>, P1), CacheEntry(r, 0)) :
                             r \in BOOLEAN}
    /\ now = 0
    /\ ticks = 0
    /\ enableRoleInheritance = TRUE
    /\ roles \in EngineRoleLists
    /\ last = NoCall
    /\ stack = << >>
    /\ calls \in {[c \in 1..NumCalls |-> Idle(user)] : user \in ConcurrentUsers}

KNext ==
    \/ \E c \in 1..NumCalls : KCheck(c)
    \/ \E c \in 1..NumCalls : KCompute(c)
    \/ \E c \in 1..NumCalls : KStore(c)
    \/ \E d \in TickSteps : Tick(d)

SpecConcurrent == KInit /\ [][KNext]_vars

-----------------------------------------------------------------------------
(* The claim codec and the comparator on their own: the functions are      *)
(* applied to arguments drawn from the enumerations and from strings       *)
(* outside them.                                                           *)

\* Arguments of createPermissionClaim besides the enumeration members: a
\* string outside every table, a key of Object.prototype, the empty string
Outsiders == {Str("bogus"), Str("constructor"), << >>}

\* Segments the strings handed to parsePermissionClaim are made of
Segments ==
    {<< >>, Str("member"), Str("view"), Str("all"), Str("badresource"),
     Str("constructor"), Str("foo"), Str("a"), Str("b"), Str("c"), Str("d")}

\* The segments joined by ":"
RECURSIVE Join(_)
Join(segs) ==
    IF Len(segs) = 1 THEN segs[1] ELSE ColonJoin(segs[1], Join(Tail(segs)))

MaxSegments == 4

\* Strings that are no claim of the enumerations: no colon at all, an
\* action that only Object.prototype knows
MalformedClaims == {Str("foo"), <<"member", Colon, "constructor", Colon, "all">>}

CodecStrings ==
    {Join(segs) : segs \in UNION {[1..n -> Segments] : n \in 1..MaxSegments}}

\* Claims handed to isPermissionStronger: two resources, every action and scope
ComparedClaims ==
    {ColonJoin(Str(r), ColonJoin(Str(a), Str(sc))) :
        r \in {"member", "service"}, a \in AllPermissionActions, sc \in PermissionScope}

CreatePermissionClaim(resource, action, scope) ==
    /\ last' = [NoCall EXCEPT !.op = "createPermissionClaim",
                  !.request = <<resource, action, scope>>,
                  !.result = <<createPermissionClaim(resource, action, scope)>>]
    /\ UNCHANGED <<permissionCache, now, ticks, enableRoleInheritance, roles, stack, calls>>

ParsePermissionClaim(claim) ==
    /\ last' = [NoCall EXCEPT !.op = "parsePermissionClaim", !.claim = claim,
                  !.result = <<parsePermissionClaim(claim)>>]
    /\ UNCHANGED <<permissionCache, now, ticks, enableRoleInheritance, roles, stack, calls>>

DetermineAccessRiskLevel(resource, action, scope) ==
    /\ last' = [NoCall EXCEPT !.op = "determineAccessRiskLevel",
                  !.request = <<Str(resource), Str(action), Str(scope)>>,
                  !.reason = determineAccessRiskLevel(resource, action, scope)]
    /\ UNCHANGED <<permissionCache, now, ticks, enableRoleInheritance, roles, stack,
                   calls>>

IsPermissionStronger(permA, permB) ==
    /\ last' = [NoCall EXCEPT !.op = "isPermissionStronger", !.claim = permA,
                  !.permB = permB, !.ret = isPermissionStronger(permA, permB)]
    /\ UNCHANGED <<permissionCache, now, ticks, enableRoleInheritance, roles, stack, calls>>

CNext ==
    /\ last.op = "none"
    /\ \/ \E resource \in {Str(r) : r \in ResourceType} \cup Outsiders,
             action \in {Str(a) : a \in AllPermissionActions} \cup Outsiders,
             scope \in {Str(sc) : sc \in PermissionScope} \cup Outsiders :
               CreatePermissionClaim(resource, action, scope)
       \/ \E claim \in CodecStrings : ParsePermissionClaim(claim)
       \/ \E permA, permB \in ComparedClaims \cup MalformedClaims :
               IsPermissionStronger(permA, permB)
       \/ \E resource \in ResourceType, action \in AllPermissionActions,
             scope \in PermissionScope :
               DetermineAccessRiskLevel(resource, action, scope)

SpecCodec == Init /\ [][CNext]_vars

\* The request names a resource, an action and a scope of the enumerations
InEnumerations(req) ==
    /\ req[1] \in {Str(r) : r \in ResourceType}
    /\ req[2] \in {Str(a) : a \in AllPermissionActions}
    /\ req[3] \in {Str(sc) : sc \in PermissionScope}

\* The valid claims the engine is asked about
EngineClaims == {RequestClaim(req) : req \in {q \in EngineRequests : InEnumerations(q)}}

\* The verdict computed from the principal and role list of the last call
FreshVerdict ==
    ComputeAccess(last.user, last.claim, roles, enableRoleInheritance).hasAccess

LastKey == CacheKey(last.user.id, last.claim)

\* C1: a decide call (hasPermission, checkAuthorization) for a principal with
\* isActive = false returns denied, whatever roles, direct permissions, role
\* list and cache contents there are.
C1_InactiveDenied ==
    (IsDecision /\ last.user # null /\ ~last.user.isActive)
      => (last.ret = FALSE /\ ~last.threw)

\* C1 witness: an inactive principal holding P1 directly has been denied by
\* hasPermission while the cache holds a live grant for that principal and claim.
C1_Witness ==
    /\ last.op = "hasPermission" /\ last.user # null /\ ~last.user.isActive
    /\ last.useCache /\ last.claim = P1
    /\ Includes(last.user.directPermissions, P1)
    /\ MapHas(permissionCache, LastKey)
    /\ permissionCache[LastKey].result
    /\ now - permissionCache[LastKey].timestamp < CACHE_TTL
    /\ last.ret = FALSE

\* C3: a decide call for a present, active principal with a resource, action
\* or scope outside its enumeration ends with the validation error reaching
\* the caller; it never returns a normal denied result.
C3_ValidationErrorReachesCaller ==
    (IsDecision /\ ActivePrincipal /\ ~InEnumerations(last.request)) => last.threw

\* C7: with caching enabled and a live entry for (principal.id, claim),
\* hasPermission returns the cached verdict and leaves the entry as it was,
\* whatever the principal's grants and the role list are now.
C7_LiveEntryAnswers ==
    (/\ last.op = "hasPermission" /\ last.cached # << >>
     /\ now - last.cached[1].timestamp < CACHE_TTL)
      => /\ last.ret = last.cached[1].result
         /\ MapGet(permissionCache, LastKey) = last.cached

\* C7 witness: the call was answered from a live entry although the verdict
\* computed from the principal and roles passed in is the opposite.
C7_Witness ==
    /\ last.op = "hasPermission" /\ last.cached # << >>
    /\ now - last.cached[1].timestamp < CACHE_TTL
    /\ last.ret = last.cached[1].result
    /\ last.ret # FreshVerdict

\* C8: an entry is returned only while now - storedAt < TTL and reading it
\* does not change storedAt; at now - storedAt >= TTL the verdict is
\* recomputed from the principal and roles of the call and replaces the
\* entry, stamped now.  No entry is stamped later than now.
C8_TtlExpiry ==
    /\ \A k \in DOMAIN permissionCache : permissionCache[k].timestamp <= now
    /\ (last.op = "hasPermission" /\ last.cached # << >>)
         => LET e == last.cached[1]
            IN /\ now - e.timestamp < CACHE_TTL
                    => (last.ret = e.result /\ permissionCache[LastKey] = e)
               /\ now - e.timestamp >= CACHE_TTL
                    => /\ last.ret = FreshVerdict
                       /\ permissionCache[LastKey] =
                            [result |-> last.ret, timestamp |-> now]

\* C8 witness: a cached denial aged exactly the TTL was not returned; the
\* call recomputed a grant and stored it.
C8_Witness ==
    /\ last.op = "hasPermission" /\ last.cached # << >>
    /\ ~last.cached[1].result
    /\ now - last.cached[1].timestamp = CACHE_TTL
    /\ last.ret
    /\ permissionCache[LastKey] = [result |-> TRUE, timestamp |-> now]

\* C9: clearPermissionCache(id) removes every entry of the principal id and
\* leaves every entry of every other principal unchanged, also for ids that
\* contain ':' or are a prefix of another id.
C9_ClearOnlyThatPrincipal ==
    [][(last'.op = "clearPermissionCache" /\ last'.userId # << >>)
         => \A u \in UserIds, c \in EngineClaims :
              LET k == CacheKey(u, c)
              IN IF u = last'.userId
                   THEN ~MapHas(permissionCache', k)
                   ELSE MapGet(permissionCache', k) = MapGet(permissionCache, k)]_vars

\* C10: after clearPermissionCache(principal.id) or clearPermissionCache()
\* no entry of that principal is left, and the next hasPermission call for
\* the principal returns the verdict computed from the principal and roles
\* passed to it.
C10_FreshAfterInvalidation ==
    /\ last.op = "clearPermissionCache"
         => \A u \in UserIds, c \in EngineClaims :
              last.userId \in {<< >>, u} => ~MapHas(permissionCache, CacheKey(u, c))
    /\ (last.op = "hasPermission" /\ last.afterClear /\ ActivePrincipal
          /\ InEnumerations(last.request))
         => last.ret = FreshVerdict

\* C10 witness: right after clearPermissionCache("a:b"), with an older entry
\* of principal "a" still cached, hasPermission for "a:b" computed a grant.
C10_Witness ==
    /\ last.op = "hasPermission" /\ last.afterClear /\ ActivePrincipal
    /\ last.useCache /\ last.user.id = <<"a", Colon, "b">>
    /\ last.cached = << >> /\ last.ret
    /\ MapHas(permissionCache, CacheKey(<<"a">>, P1))
    /\ permissionCache[CacheKey(<<"a">>, P1)].timestamp < now

\* C11: a cache-enabled hasPermission call that reaches the computation leaves
\* in the cache, for (principal.id, claim), exactly the verdict it returns,
\* stamped now, in place of any earlier entry; the cache-enabled call for the
\* same principal and claim that follows within the TTL returns that verdict.
C11_StoreThenServe ==
    /\ (last.op = "hasPermission" /\ last.useCache /\ last.step = "computed")
         => MapGet(permissionCache, LastKey) =
              <<[result |-> last.ret, timestamp |-> now]>>
    /\ (/\ last.op = "hasPermission" /\ last.useCache /\ ActivePrincipal
        /\ InEnumerations(last.request)
        /\ last.prior # << >> /\ last.prior[1].key = LastKey
        /\ now - last.prior[1].timestamp < CACHE_TTL)
         => last.ret = last.prior[1].result

\* C11 witness: a computation replaced an expired entry, and the next call
\* for the pair returned the stored verdict although the principal and roles
\* passed in compute the opposite.
C11_Witness ==
    /\ last.op = "hasPermission" /\ last.useCache /\ ActivePrincipal
    /\ last.prior # << >> /\ last.prior[1].key = LastKey
    /\ last.prior[1].overwrote
    /\ now - last.prior[1].timestamp < CACHE_TTL
    /\ last.ret = last.prior[1].result
    /\ last.ret # FreshVerdict

\* Whether the role at position i grants the claim of the last call
Grants(i) ==
    roleHasPermission(roles[i], last.claim, roles, {}, enableRoleInheritance)

\* C12: an active principal whose directPermissions contains the claim is
\* granted with source "Direct Permission" whether or not a role grants it
\* (no role held, roles inactive or absent from allRoles, or a role granting
\* it too); without the direct permission a grant names the first role, of
\* the active roles held, that grants the claim.
C12_DirectBeforeRoles ==
    (last.op = "hasPermission" /\ last.step = "computed")
      => /\ Includes(last.user.directPermissions, last.claim)
              => (last.ret /\ last.source = Str("Direct Permission"))
         /\ (~Includes(last.user.directPermissions, last.claim) /\ last.ret)
              => \E i \in HeldRoles(last.user, roles) :
                    /\ Grants(i)
                    /\ last.source = <<"Role", Colon>> \o roles[i].name
                    /\ \A j \in HeldRoles(last.user, roles) : j < i => ~Grants(j)
         /\ (~Includes(last.user.directPermissions, last.claim) /\ ~last.ret)
              => \A i \in HeldRoles(last.user, roles) : ~Grants(i)

\* C12 witness: the principal holds P1 directly and holds the active role A
\* that has P1 as well; the grant is reported as the direct permission.
C12_Witness ==
    /\ last.op = "hasPermission" /\ last.step = "computed" /\ last.ret
    /\ Includes(last.user.directPermissions, P1) /\ last.claim = P1
    /\ last.user.roles = <<"A">>
    /\ roles[1].id = "A" /\ roles[1].isActive /\ roles[1].permissions = <<P1>>
    /\ last.source = Str("Direct Permission")

\* The `resource:action:scope` string of the last request, valid or not
RequiredClaim ==
    ColonJoin(last.request[1], ColonJoin(last.request[2], last.request[3]))

\* C13: the reason of a decision follows the first applicable step: an absent
\* principal is denied with "User not authenticated" (401 AUTH_REQUIRED at
\* the middleware unless anonymous access is configured); otherwise an
\* inactive principal is denied with "User account is inactive"; otherwise a
\* denial says "Insufficient permissions: " followed by the exact required
\* claim string, and a principal without the claim is so denied when no
\* cached verdict is consulted.  A denial is a returned value, never an
\* exception.
C13_ReasonByFirstStep ==
    /\ last.op = "checkAuthorization" =>
         /\ ~last.threw
         /\ last.user = null
              => (~last.ret /\ last.error = Str("User not authenticated"))
         /\ (last.user # null /\ ~last.user.isActive)
              => (~last.ret /\ last.error = Str("User account is inactive"))
         /\ (ActivePrincipal /\ ~last.ret)
              => last.error = <<"Insufficient permissions", Colon, " ">> \o RequiredClaim
         /\ (ActivePrincipal /\ last.ret) => last.error = << >>
         /\ (ActivePrincipal /\ ~last.useCache /\ ~FreshVerdict) => ~last.ret
    /\ (last.op = "authMiddleware" /\ ~last.allowAnonymous) =>
         LET r == last.response[1]
         IN /\ last.user = null
                 => (r.status = 401 /\ r.code = "AUTH_REQUIRED")
            /\ (last.user # null /\ ~last.user.isActive)
                 => (r.status = 403 /\ r.message = Str("User account is inactive"))
            /\ (ActivePrincipal /\ r.status # 200)
                 => /\ r.status = 403
                    /\ r.message = <<"Insufficient permissions", Colon, " ">> \o RequiredClaim
                    /\ r.required = RequiredClaim

\* C13 witness: an active principal whose only role reaches P1 through an
\* inactive role was denied by the middleware with the required claim
\* member:view:all.
C13_Witness ==
    /\ last.op = "authMiddleware" /\ ActivePrincipal
    /\ last.user.directPermissions = << >>
    /\ ~roles[2].isActive
    /\ last.response[1].status = 403
    /\ last.response[1].required = P1
    /\ last.response[1].message =
         <<"Insufficient permissions", Colon, " ", "member", Colon, "view", Colon, "all">>

\* C14: getUserEffectivePermissions returns no permissions for a principal
\* with isActive = false, whatever direct permissions and roles it has.
C14_InactivePrincipalEnumeratesNothing ==
    (last.op = "getUserEffectivePermissions" /\ ~last.user.isActive)
      => last.perms = << >>

\* C15: every claim returned by getRoleEffectivePermissions is a direct
\* permission of some active role, for every queried role; for an inactive
\* queried role the result contains none of its permissions.
C15_OnlyActiveRolesContribute ==
    last.op = "getRoleEffectivePermissions"
      => /\ AsSet(last.perms)
              \subseteq PermissionsOf({i \in 1..Len(roles) : roles[i].isActive}, roles)
         /\ ~roles[last.role].isActive
              => AsSet(last.perms) \cap AsSet(roles[last.role].permissions) = {}

-----------------------------------------------------------------------------
(* Properties of the claim codec and the comparator *)

ResourceStrings == {Str(r) : r \in ResourceType}
ActionStrings == {Str(a) : a \in AllPermissionActions}
ScopeStrings == {Str(sc) : sc \in PermissionScope}

Colons(s) == Cardinality({i \in 1..Len(s) : s[i] = Colon})

\* C16: for every valid (resource, action, scope) the encoded string is
\* 'resource:action:scope' with exactly two colons and parsePermissionClaim
\* of it returns (resource, action, scope); createPermissionClaim applied to
\* the parts of a successfully parsed claim returns the original string.
C16_RoundTrip ==
    /\ (last.op = "createPermissionClaim" /\ InEnumerations(last.request))
         => LET c == last.result[1]
            IN /\ c.ok
               /\ c.value = RequiredClaim
               /\ Colons(c.value) = 2
               /\ parsePermissionClaim(c.value)
                    = Ok([resource |-> last.request[1], action |-> last.request[2],
                          scope |-> last.request[3]])
    /\ (last.op = "parsePermissionClaim" /\ last.result[1].ok)
         => LET v == last.result[1].value
            IN createPermissionClaim(v.resource, v.action, v.scope) = Ok(last.claim)

\* The string splits on ':' into exactly three non-empty segments
ThreeSegments(claim) ==
    /\ Len(Split(claim)) = 3
    /\ \A i \in 1..3 : Split(claim)[i] # << >>

\* C17: parsePermissionClaim fails with the invalid-format error exactly when
\* the string does not split on ':' into three non-empty segments; with three
\* non-empty segments it fails with unknown resource, action or scope for the
\* first segment outside its enumeration and succeeds only when all three
\* are members.
C17_ParseErrorKinds ==
    last.op = "parsePermissionClaim"
      => LET parts == Split(last.claim)
             res == last.result[1]
         IN /\ ~ThreeSegments(last.claim)
                 => (~res.ok /\ res.error = "Invalid format. Please check your input.")
            /\ ThreeSegments(last.claim)
                 => IF parts[1] \notin ResourceStrings
                      THEN ~res.ok /\ res.error = "Unknown resource type"
                    ELSE IF parts[2] \notin ActionStrings
                      THEN ~res.ok /\ res.error = "Unknown action"
                    ELSE IF parts[3] \notin ScopeStrings
                      THEN ~res.ok /\ res.error = "Unknown scope"
                    ELSE res.ok

\* C18: createPermissionClaim fails with invalid resource, action or scope if
\* and only if the corresponding argument is outside its enumeration (the
\* first such argument decides the error); for every triple of enumeration
\* members it returns the claim, whether or not the scope is among the
\* default scopes of the resource.
C18_EncodeErrors ==
    last.op = "createPermissionClaim"
      => LET req == last.request
             res == last.result[1]
         IN IF req[1] \notin ResourceStrings
              THEN ~res.ok /\ res.error = "Invalid resource type"
            ELSE IF req[2] \notin ActionStrings
              THEN ~res.ok /\ res.error = "Invalid action"
            ELSE IF req[3] \notin ScopeStrings
              THEN ~res.ok /\ res.error = "Invalid scope"
            ELSE res = Ok(RequiredClaim)

\* The fixed order of scopes by breadth
Breadth ==
    [none |-> 0, owned |-> 1, assigned |-> 2, district |-> 3, department |-> 4,
     region |-> 5, all |-> 6]

\* critical > high > medium > low
RiskRank(action) ==
    LET risk == ActionRiskLevel(action)
    IN Cardinality({r \in {"low", "medium", "high", "critical"} :
                      \/ r = risk
                      \/ r = "low"
                      \/ r = "medium" /\ risk \in {"high", "critical"}
                      \/ r = "high" /\ risk = "critical"})

\* C19: for valid claims A and B, isPermissionStronger(A, B) is false when
\* the resources differ; with equal resources and different actions it is
\* true iff the risk rank of A's action is above that of B's; with equal
\* resource and action it is true iff the breadth of A's scope is above that
\* of B's, none=0 < owned=1 < assigned=2 < district=3 < department=4 <
\* region=5 < all=6.
C19_StrongerOrder ==
    (/\ last.op = "isPermissionStronger"
     /\ last.claim \in ComparedClaims /\ last.permB \in ComparedClaims)
      => LET A == Split(last.claim)
             B == Split(last.permB)
         IN last.ret =
              IF A[1] # B[1] THEN FALSE
              ELSE IF A[2] # B[2] THEN RiskRank(A[2][1]) > RiskRank(B[2][1])
              ELSE Breadth[A[3][1]] > Breadth[B[3][1]]

\* C19 witness: member:view:department was found stronger than
\* member:view:district.
C19_Witness ==
    /\ last.op = "isPermissionStronger"
    /\ last.claim = <<"member", Colon, "view", Colon, "department">>
    /\ last.permB = <<"member", Colon, "view", Colon, "district">>
    /\ last.ret

\* Position of a risk level in low < medium < high < critical
LevelRank(risk) ==
    Cardinality({r \in {"low", "medium", "high", "critical"} :
                   \/ r = risk
                   \/ r = "low"
                   \/ r = "medium" /\ risk \in {"high", "critical"}
                   \/ r = "high" /\ risk = "critical"})

\* The scope band: high for breadth 5 and 6, medium for 3 and 4, else low
ScopeBand(scope) ==
    IF scope \in {"region", "all"} THEN "high"
    ELSE IF scope \in {"district", "department"} THEN "medium"
    ELSE "low"

\* C23: the access risk level of (resource, action, scope) is the maximum,
\* under low < medium < high < critical, of the resource's risk, the action's
\* risk and the scope band (high for region and all, medium for district and
\* department, low otherwise); it is never below any of the three.
C23_RiskIsMaximum ==
    last.op = "determineAccessRiskLevel"
      => LET parts == {ResourceRiskLevel(last.request[1][1]),
                       ActionRiskLevel(last.request[2][1]),
                       ScopeBand(last.request[3][1])}
         IN /\ last.reason \in parts
            /\ \A p \in parts : LevelRank(p) <= LevelRank(last.reason)
            /\ Breadth[last.request[3][1]] >= 5 => LevelRank(last.reason) >= 3
            /\ Breadth[last.request[3][1]] >= 3 => LevelRank(last.reason) >= 2

\* C23 witness: contact (low) and view (low) with scope region came out high,
\* the scope band alone deciding.
C23_Witness ==
    /\ last.op = "determineAccessRiskLevel"
    /\ last.request = <<Str("contact"), Str("view"), Str("region")>>
    /\ last.reason = "high"

\* Every claim the principal of the last call holds: directly, through a
\* role, through a parent of a role
EveryClaimHeld ==
    AsSet(last.user.directPermissions)
      \cup PermissionsOf(ActiveReachableFrom(HeldRoles(last.user, roles), roles), roles)

\* C24: hasPermission grants exactly when the requested claim string equals
\* a held claim: a held claim with a broader scope or a riskier action grants
\* nothing else, and holding 'r:a:none' neither grants nor blocks another
\* claim; the decision is the one made with every other held claim removed.
C24_ExactClaimOnly ==
    (last.op = "hasPermission" /\ last.step = "computed")
      => /\ last.ret <=> last.claim \in EveryClaimHeld
         /\ last.ret = ComputeAccess(
                          [last.user EXCEPT !.directPermissions =
                             SelectSeq(last.user.directPermissions,
                                       LAMBDA c : c = last.claim)],
                          last.claim,
                          [i \in 1..Len(roles) |->
                             [roles[i] EXCEPT !.permissions =
                                SelectSeq(roles[i].permissions,
                                          LAMBDA c : c = last.claim)]],
                          enableRoleInheritance).hasAccess

\* C24 witness: the principal holds member:view:all and member:view:none
\* directly and member:delete:all through a role; member:view:assigned was
\* denied.
C24_Witness ==
    /\ last.op = "hasPermission" /\ last.step = "computed"
    /\ last.user.directPermissions = <<P1, P4>>
    /\ roles[1].permissions = <<P3>> /\ roles[2].permissions = << >>
    /\ last.claim = P2
    /\ ~last.ret

IsolationClaims == {RequestClaim(req) : req \in IsolationRequests}

\* All claims of three enumeration members
EnumeratedClaims ==
    {ColonJoin(Str(r), ColonJoin(Str(a), Str(sc))) :
        r \in ResourceType, a \in AllPermissionActions, sc \in PermissionScope}

\* The principal id and the claim a cache key was built from, read back from
\* the key: the claim is the last three segments, the id what precedes them
KeyPrincipal(key) == SubSeq(key, 1, Len(key) - 6)
KeyClaim(key) == SubSeq(key, Len(key) - 4, Len(key))

\* The verdict of a principal of IsolationUsers on its own grants
OwnVerdict(user, claim) == Includes(user.directPermissions, claim)

\* Entries of the other principals are what they were before the call
OthersUntouched ==
    \A v \in IsolationUsers, c \in IsolationClaims :
        v.id # last'.user.id
          => MapGet(permissionCache', CacheKey(v.id, c))
               = MapGet(permissionCache, CacheKey(v.id, c))

\* What the call read is the entry under the key of its own principal
ReadsOwnEntry ==
    last'.useCache
      => last'.cached = MapGet(permissionCache, CacheKey(last'.user.id, last'.claim))

IsolatedState ==
    /\ \A u \in IsolationUsers, c \in IsolationClaims :
          /\ \A v \in IsolationUsers, d \in IsolationClaims :
                CacheKey(u.id, c) = CacheKey(v.id, d) => u.id = v.id /\ c = d
          /\ MapHas(permissionCache, CacheKey(u.id, c))
                => permissionCache[CacheKey(u.id, c)].result = OwnVerdict(u, c)
    /\ last.op = "hasPermission" => last.ret = OwnVerdict(last.user, last.claim)
    /\ permissionCache = EmptyMap
          => \A id \in IsolationIds, c \in EnumeratedClaims :
                /\ KeyPrincipal(CacheKey(id, c)) = id
                /\ KeyClaim(CacheKey(id, c)) = c

\* C25: principals with distinct ids (ids with ':' included) share no cache
\* entry: distinct (id, valid claim) pairs have distinct keys (the id and the
\* claim can be read back from the key), a call reads the entry of its own
\* principal only, leaves the entries of the others as they were, and the
\* verdict returned and the verdict cached are the principal's own.
C25_CacheIsolation ==
    []IsolatedState /\ [][OthersUntouched /\ ReadsOwnEntry]_vars

\* C25 witness: the principal 'a:member:view', which holds nothing, was
\* denied member:view:all on a computation while the cache held the grants
\* of 'a' and 'a:member' for the same claim
C25_Witness ==
    /\ last.op = "hasPermission" /\ last.step = "computed" /\ last.useCache
    /\ last.user.id = <<"a", Colon, "member", Colon, "view">>
    /\ last.claim = P1 /\ ~last.ret
    /\ MapHas(permissionCache, CacheKey(<<"a">>, P1))
    /\ permissionCache[CacheKey(<<"a">>, P1)].result
    /\ MapHas(permissionCache, CacheKey(<<"a", Colon, "member">>, P1))
    /\ permissionCache[CacheKey(<<"a", Colon, "member">>, P1)].result
    /\ ~permissionCache[CacheKey(last.user.id, P1)].result

\* A (resource, action, scope) triple of the three enumerations
ValidTriple(req) ==
    /\ Len(req[1]) = 1 /\ req[1][1] \in ResourceType
    /\ Len(req[2]) = 1 /\ req[2][1] \in AllPermissionActions
    /\ Len(req[3]) = 1 /\ req[3][1] \in PermissionScope

\* The key of the call that has just returned (of a valid request)
OwnKey == CacheKey(last'.user.id, ColonJoin(last'.request[1],
                     ColonJoin(last'.request[2], last'.request[3])))

\* The call that has just returned may not touch the cache at all
NoStoreExpected ==
    \/ last'.user = null
    \/ ~last'.user.isActive
    \/ ~ValidTriple(last'.request)
    \/ ~last'.useCache
    \/ last'.step = "hit"

FrameOfCall ==
    last'.op = "hasPermission"
      => /\ NoStoreExpected => permissionCache' = permissionCache
         /\ ~NoStoreExpected
               => \A k \in (DOMAIN permissionCache) \cup (DOMAIN permissionCache') :
                     k # OwnKey => MapGet(permissionCache', k) = MapGet(permissionCache, k)

\* Every entry is keyed by an active principal and a claim of the enumerations
EntriesOfValidCalls ==
    \A k \in DOMAIN permissionCache :
        \E u \in FrameUsers, req \in FrameRequests :
            /\ u.isActive /\ ValidTriple(req)
            /\ k = CacheKey(u.id, ColonJoin(req[1], ColonJoin(req[2], req[3])))

\* C26: a hasPermission call changes at most the cache entry of its own
\* principal and claim; it changes nothing when the principal is absent or
\* inactive, when the triple is outside the enumerations, when useCache is
\* false, or on a hit; so every entry belongs to an active principal and a
\* valid claim.
C26_FrameOfDecide ==
    []EntriesOfValidCalls /\ [][FrameOfCall]_vars

\* The part of C26 that does hold: only the entry under the key built from
\* the principal id and the arguments changes, and nothing changes for an
\* absent or inactive principal, a createPermissionClaim failure, useCache
\* false, or a hit.
C26_FrameAsCoded ==
    [][last'.op = "hasPermission"
         => IF last'.user = null \/ last'.step \in {"early", "catch", "hit"}
                 \/ ~last'.useCache
              THEN permissionCache' = permissionCache
              ELSE \A k \in (DOMAIN permissionCache) \cup (DOMAIN permissionCache') :
                      k # OwnKey
                        => MapGet(permissionCache', k) = MapGet(permissionCache, k)]_vars

\* The order part of C28, on claims of the enumerations only
StrictOrderOnComparedClaims ==
    (/\ last.op = "isPermissionStronger"
     /\ last.claim \in ComparedClaims /\ last.permB \in ComparedClaims)
      => /\ last.claim = last.permB => ~last.ret
         /\ last.ret => ~isPermissionStronger(last.permB, last.claim)
         /\ last.ret => \A c \in ComparedClaims :
                            isPermissionStronger(last.permB, c)
                              => isPermissionStronger(last.claim, c)

\* C28: on valid claims isPermissionStronger is irreflexive, asymmetric and
\* transitive; when either argument is no valid claim it returns false.
C28_StrictPartialOrder ==
    /\ StrictOrderOnComparedClaims
    /\ (/\ last.op = "isPermissionStronger"
        /\ (last.claim \notin EnumeratedClaims \/ last.permB \notin EnumeratedClaims))
         => ~last.ret

\* The user the last middleware call resolved
Resolved(user) == user # null /\ user # LookupRejected

\* What checkAuthorization answers for the call that has just returned
CheckOfCall ==
    checkAuthorization(last'.user, last'.request[1], last'.request[2],
                       last'.request[3], roles', Options(TRUE, FALSE),
                       permissionCache, now, enableRoleInheritance, ConfiguredAudit)

\* The two cases in which the request may pass
MayPass ==
    \/ last'.user = null /\ last'.allowAnonymous
    \/ /\ Resolved(last'.user)
       /\ last'.requireMFA => MfaEnabled(last'.user)
       /\ CheckOfCall.authorized

\* C29: authMiddleware returns the pass-through response only when no user
\* is resolved and allowAnonymous is set, or a user is resolved, the second
\* factor (if required) is enabled and checkAuthorization answered
\* authorized; otherwise it returns 401 (no user), 403 (second factor
\* missing, inactive user, insufficient permissions) or 500 (an exception).
C29_FailsClosed ==
    [][last'.op = "authMiddleware"
         => LET r == last'.response[1]
                o == last'
            IN /\ r.status = 200 => MayPass
               /\ r.status \in {200, 401, 403, 500}
               /\ r.status = 401 => last'.user = null /\ ~o.allowAnonymous
               /\ r.status = 403
                    => /\ Resolved(last'.user)
                       /\ \/ o.requireMFA /\ ~MfaEnabled(last'.user)
                          \/ ~last'.user.isActive
                          \/ ~CheckOfCall.authorized
               /\ r.status = 500
                    => \/ last'.user = LookupRejected
                       \/ ~o.customHeadersValid
                       \/ ~o.requestReadable
               /\ (r.status = 200 /\ Resolved(last'.user)) => last'.user.isActive
               /\ (o.customHeadersValid /\ o.requestReadable
                     /\ last'.user # LookupRejected /\ MayPass) => r.status = 200]_vars

\* C29 witness: second factor required, the user holds the claim but has
\* the second factor off: refused with 403 MFA_REQUIRED and the cache left
\* alone
C29_Witness ==
    /\ last.op = "authMiddleware"
    /\ last.requireMFA /\ last.rateLimit # << >>
    /\ Resolved(last.user) /\ last.user.isActive
    /\ last.user.directPermissions = <<P1>> /\ last.claim = P1
    /\ "profile" \in DOMAIN last.user /\ ~last.user.profile.mfaEnabled
    /\ last.response[1].status = 403 /\ last.response[1].code = "MFA_REQUIRED"
    /\ ~last.ret

\* The ids that name a role of the list
KnownIds == {roles[i].id : i \in 1..Len(roles)}

\* The role list and the principal with every id that names no role removed
PrunedRoles ==
    [i \in 1..Len(roles) |->
        [roles[i] EXCEPT !.inheritsFrom =
            SelectSeq(roles[i].inheritsFrom, LAMBDA id : id \in KnownIds)]]

PrunedUser(user) ==
    [user EXCEPT !.roles = SelectSeq(user.roles, LAMBDA id : id \in KnownIds)]

\* C30: a role id that names no role of allRoles is ignored without error:
\* held by the principal it adds nothing to a decision or to
\* getUserEffectivePermissions, listed in inheritsFrom it is skipped and the
\* other parents are still traversed; every result is the one obtained with
\* the dangling ids removed.
C30_DanglingIdsIgnored ==
    /\ last.op = "hasPermission"
         => /\ last.step = "computed" /\ ~last.threw
            /\ last.ret = ComputeAccess(PrunedUser(last.user), last.claim, PrunedRoles,
                                        enableRoleInheritance).hasAccess
            /\ (last.user.roles = <<"X">>)
                 => (last.ret <=> Includes(last.user.directPermissions, last.claim))
    /\ last.op = "getUserEffectivePermissions"
         => /\ last.perms = getUserEffectivePermissions(PrunedUser(last.user), PrunedRoles,
                                                        enableRoleInheritance)
            /\ (last.user.roles = <<"X">>) => last.perms = last.user.directPermissions
    /\ last.op = "getRoleEffectivePermissions"
         => last.perms = getRoleEffectivePermissions(PrunedRoles[last.role], PrunedRoles,
                                                     {}, enableRoleInheritance)
    /\ last.op = "roleHasPermission"
         => last.ret = roleHasPermission(PrunedRoles[last.role], last.claim, PrunedRoles,
                                         {}, enableRoleInheritance)

\* C30 witness: the principal holds "X" and "A", A lists the parents "X"
\* and "B", B holds member:view:all: granted through the parent behind the
\* dangling id
C30_Witness ==
    /\ last.op = "hasPermission" /\ last.ret /\ last.claim = P1
    /\ last.user.roles = <<"X", "A">> /\ last.user.directPermissions = << >>
    /\ roles[2].inheritsFrom = <<"X", "B">> /\ roles[2].permissions = << >>
    /\ roles[1].permissions = <<P1>>
    /\ last.source = RoleSource(roles[2])

-----------------------------------------------------------------------------
(* Properties of the audit channel *)

\* C27: with access logging on, a call answered from a live cache entry
\* emits no audit record; records are emitted on the early denials, on a
\* recomputation and on an error only, so a check repeated within the TTL
\* (a repeated denial too) emits nothing.
C27_HitEmitsNothing ==
    last.op = "hasPermission"
      => /\ last.step = "hit" <=> last.emitted = "none"
         /\ last.step \in {"early", "computed", "catch"}
               <=> last.emitted \in {"warned", "built"}
         /\ (last.cached # << >> /\ now - last.cached[1].timestamp < CACHE_TTL)
               => last.emitted = "none"

\* C27 witness: a denial served from an entry stored one millisecond
\* earlier, the principal active and without the claim
C27_Witness ==
    /\ last.op = "hasPermission" /\ last.step = "hit" /\ ~last.ret
    /\ last.user # null /\ last.user.isActive
    /\ last.cached # << >> /\ now - last.cached[1].timestamp = 1
    /\ last.emitted = "none"

\* The same call without logAccess, from the cache as it was before the call
QuietCall ==
    hasPermission(last'.user, last'.request[1], last'.request[2], last'.request[3],
                  roles', Options(last'.useCache, FALSE), permissionCache, now,
                  enableRoleInheritance, ConfiguredAudit)

\* C20: for all inputs and cache states hasPermission returns the same
\* verdict and leaves the same cache contents whether logAccess and
\* enableAuditLogging are on or off and whether the emission succeeds or
\* throws; no failure of the emitter leaves hasPermission.
C20_AuditNeverChangesDecision ==
    [][last'.op = "hasPermission"
         => /\ ~last'.threw
            /\ last'.ret = QuietCall.ret
            /\ permissionCache' = QuietCall.cache]_vars

\* C20 witness: with logAccess and enableAuditLogging on and the emission
\* throwing, a computed grant was returned and cached.
C20_Witness ==
    /\ last.op = "hasPermission" /\ last.emitted = "swallowed"
    /\ last.useCache /\ last.step = "computed" /\ last.ret
    /\ MapGet(permissionCache, LastKey) = <<[result |-> TRUE, timestamp |-> now]>>

-----------------------------------------------------------------------------
(* Frame properties of the resolver *)

IsResolution ==
    last'.op \in {"hasPermission", "roleHasPermission",
                  "getRoleEffectivePermissions", "getUserEffectivePermissions"}

-----------------------------------------------------------------------------
(* Properties of calls side by side *)

AllCalls == 1..NumCalls

ConcurrentKey == CacheKey(calls[1].user.id, P1)

\* C22: when the calls for the same principal, claim and role list have all
\* missed the cache and have all returned, whatever the order of their cache
\* reads, computations and cache writes was, they have returned one and the
\* same verdict, and the entry in the cache is that verdict in a pair
\* (result, timestamp) exactly as one of the calls wrote it.
C22_ConcurrentMissesAgree ==
    (\A c \in AllCalls : calls[c].pc = "done" /\ calls[c].missed)
      => /\ \A c, d \in AllCalls : calls[c].ret = calls[d].ret
         /\ MapHas(permissionCache, ConcurrentKey)
         /\ permissionCache[ConcurrentKey].result = calls[1].ret
         /\ \E c \in AllCalls : calls[c].wrote = <<permissionCache[ConcurrentKey]>>
         /\ permissionCache[ConcurrentKey].timestamp <= now

\* C22 witness: both calls missed the cache and computed a grant, and they
\* wrote at different times; the entry is the grant with the later timestamp.
C22_Witness ==
    /\ \A c \in AllCalls : calls[c].pc = "done" /\ calls[c].missed /\ calls[c].ret
    /\ calls[1].wrote # calls[2].wrote
    /\ calls[1].wrote[1].timestamp < calls[2].wrote[1].timestamp
    /\ permissionCache[ConcurrentKey] = calls[2].wrote[1]

=============================================================================
